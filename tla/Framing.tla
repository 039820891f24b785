------------------------------- MODULE Framing --------------------------------
(***************************************************************************)
(* How the bridge cuts the bytes it receives into messages: the WebSocket  *)
(* decoder of lib/ws-jsonrpc.mjs for the Codex daemon, the one inside      *)
(* lib/codex-ssh.mjs for a remote host, the length-prefixed frames of      *)
(* lib/codex-desktop.mjs, and the lines of scripts/mcp.mjs.                *)
(*                                                                         *)
(* A peer writes one frame after the other.  Their bytes arrive in chunks  *)
(* that know nothing of frames: a chunk may end inside a header and may    *)
(* hold several frames.  A turn of a receiver's loop is a step, and each   *)
(* chunk is worked off before the next one comes.                          *)
(***************************************************************************)
EXTENDS Naturals, Sequences

CONSTANTS
    Receivers,  \* the receivers that are checked, of those named below
    WebFrames,  \* the WebSocket frames a peer may write
    Payloads,   \* what Desktop frames and lines may hold
    Heads,      \* how a peer may answer the upgrade
    MaxFrames,  \* how many frames a peer writes (a bound on runs)
    MaxMessage, \* the longest message (8 MiB), line (maxLineBytes) or frame
    MaxControl, \* the longest control frame (125 bytes)
    MaxHead,    \* the longest answer to the upgrade (16 KiB; remote: 64 KiB)
    MaxChunk,   \* the longest chunk
    ByteXor(_, _) \* exclusive or of two bytes

Byte == 0..255
Newline == 10

\* Masks, reserved bits and each form of the length field may be used.  Frames of
\* 16 MiB stand for all that are longer, which no receiver takes.
FrameType == [op : 0..15, fin : {0, 1}, reserved : 0..7, form : {2, 4, 10},
              mask : {<<>>} \cup [1..4 -> Byte], data : Seq(Byte)]
TooLong == 256 * 256 * 256
Room(form) == CASE form = 2 -> 126 [] form = 4 -> 256 * 256 [] OTHER -> TooLong

\* Where a head's blank line begins.
Blanks(b) == {i \in 1..Len(b) : i + 3 <= Len(b) /\ b[i] = 13 /\ b[i + 1] = 10 /\ b[i + 2] = 13 /\ b[i + 3] = 10}

ASSUME ReceiversAssumption == Receivers \subseteq {"daemon", "ssh", "desktop", "lines"}
ASSUME FramesAssumption == \A f \in WebFrames : f \in FrameType /\ Len(f.data) < Room(f.form)
ASSUME PayloadsAssumption == \A d \in Payloads : d \in Seq(Byte \ {Newline}) /\ Len(d) < TooLong
ASSUME XorAssumption == \A a, b \in Byte : ByteXor(a, b) \in Byte /\ ByteXor(ByteXor(a, b), b) = a

ASSUME BoundsAssumption ==
    /\ {MaxFrames, MaxMessage, MaxControl, MaxHead, MaxChunk} \subseteq Nat \ {0}
    /\ MaxMessage < TooLong

\* A head ends with its only blank line; without one it is all the peer ever writes.
ASSUME HeadsAssumption == \A h \in Heads : h \in Seq(Byte) /\ Blanks(h) \subseteq {Len(h) - 3}

VARIABLES
    receiver,   \* which of the receivers
    head,       \* the answer to the upgrade that comes first
    stream,     \* all bytes that the peer has written
    frames,     \* the frames among them
    said,       \* what the peer has said by its first i - 1 frames (not part of the system)
    received,   \* how many bytes have arrived
    state       \* the receiver: what it holds, and what it made of the rest

framingVars == <<receiver, head, stream, frames, said, received, state>>

------------------------------------------------------------------------------
(* What a peer writes *)

IsWeb == receiver \in {"daemon", "ssh"}
PeerFrame == IF IsWeb THEN WebFrames ELSE [data : Payloads]

\* The header's length field; a length of 4 or 10 bytes need not be the shortest.
LengthBytes(f) ==
    LET n == Len(f.data) IN
    CASE f.form = 2 -> <<n>>
      [] f.form = 4 -> <<126, n \div 256, n % 256>>
      [] OTHER -> <<127, 0, 0, 0, 0, 0, (n \div 256) \div 256, (n \div 256) % 256, n % 256>>

Masked(data, mask) == [i \in 1..Len(data) |-> ByteXor(data[i], mask[((i - 1) % 4) + 1])]

WebBytes(f) ==
    LET flag == IF f.mask = <<>> THEN 0 ELSE 128
        length == [LengthBytes(f) EXCEPT ![1] = @ + flag] IN
    <<128 * f.fin + 16 * f.reserved + f.op>> \o length \o f.mask
        \o (IF f.mask = <<>> THEN f.data ELSE Masked(f.data, f.mask))

DesktopBytes(data) ==
    LET n == Len(data) IN <<n % 256, (n \div 256) % 256, (n \div 256) \div 256, 0>> \o data

Encoded(f) ==
    CASE IsWeb -> WebBytes(f)
      [] receiver = "desktop" -> DesktopBytes(f.data)
      [] OTHER -> Append(f.data, Newline)

------------------------------------------------------------------------------
(* What its frames mean, whatever the bytes and the chunks: how many bytes  *)
(* they take, the message that is not complete, what is complete, and       *)
(* whether all of it was right.                                             *)

Events(kind, data) == <<[kind |-> kind, data |-> data]>>

\* A head is taken if it is 101 up to its blank line, which the remote receiver
\* does not look for too far away.
Opening ==
    LET ok == IsWeb => /\ Blanks(head) # {} /\ head[1] = 101
                       /\ receiver = "ssh" => Len(head) <= MaxHead + 4 IN
    [at |-> IF IsWeb /\ Blanks(head) = {} THEN MaxHead + 1 ELSE Len(head),
     parts |-> <<>>, pieces |-> 0, ok |-> ok,
     events |-> IF IsWeb /\ ok THEN Events("open", <<>>) ELSE <<>>]

\* A message is one text and its continuations; other frames may come in between.
Continues(s, f) == /\ f.op = (IF s.pieces = 0 THEN 1 ELSE 0)
                   /\ Len(s.parts) + Len(f.data) <= MaxMessage
IsControl(f) == f.op \in 8..10 /\ f.fin = 1 /\ Len(f.data) <= MaxControl

Valid(s, f) ==
    /\ Len(f.data) <= MaxMessage
    /\ receiver = "desktop" => f.data # <<>>
    /\ IsWeb => /\ f.reserved = 0 /\ (Continues(s, f) \/ IsControl(f))
                /\ receiver = "ssh" => f.mask = <<>> /\ f.op # 8

Collected(s, f) ==
    IF IsWeb /\ f.op < 8 /\ f.fin = 0 THEN [s EXCEPT !.parts = @ \o f.data, !.pieces = @ + 1]
    ELSE IF IsWeb /\ f.op >= 8 THEN s ELSE [s EXCEPT !.parts = <<>>, !.pieces = 0]

Meaning(s, f) ==
    CASE ~IsWeb -> Events("text", f.data)
      [] IsWeb /\ f.op < 8 -> IF f.fin = 1 THEN Events("text", s.parts \o f.data) ELSE <<>>
      [] IsWeb /\ f.op = 8 -> Events("close", <<>>)
      [] IsWeb /\ f.op = 9 -> Events("ping", f.data)
      [] OTHER -> <<>>

Heard(s, f) ==
    LET after == [s EXCEPT !.at = @ + Len(Encoded(f))] IN
    IF s.ok /\ Valid(s, f) THEN [Collected(after, f) EXCEPT !.events = @ \o Meaning(s, f)]
    ELSE [after EXCEPT !.ok = FALSE]

------------------------------------------------------------------------------
(* The receivers *)

Start == [pc |-> "idle", open |-> ~IsWeb, held |-> <<>>, parts |-> <<>>, pieces |-> 0, events |-> <<>>]

FramingInit ==
    /\ receiver \in Receivers
    /\ head \in IF IsWeb THEN Heads ELSE {<<>>}
    /\ stream = head
    /\ frames = <<>>
    /\ said = <<Opening>>
    /\ received = 0
    /\ state = Start

Wait(st) == [st EXCEPT !.pc = "idle"]
Fail(st) == [st EXCEPT !.pc = "failed"]
Event(st, kind, data) == [st EXCEPT !.events = @ \o Events(kind, data)]
Dropped(st, n) == [st EXCEPT !.held = SubSeq(@, n + 1, Len(@))]
First(places) == CHOOSE i \in places : \A j \in places : i <= j

\* The upgrade is checked when its blank line has come, then the frames follow.
Upgrade(st) ==
    LET end == First(Blanks(st.held)) IN
    IF Blanks(st.held) = {} THEN IF Len(st.held) > MaxHead THEN Fail(st) ELSE Wait(st)
    ELSE IF st.held[1] # 101 \/ (receiver = "ssh" /\ end - 1 > MaxHead) THEN Fail(st)
    ELSE Event([Dropped(st, end + 3) EXCEPT !.open = TRUE], "open", <<>>)

\* The parts of a web frame's header, as far as they are there.
Opcode(b) == b[1] % 16
Fin(b) == b[1] >= 128
Reserved(b) == (b[1] \div 16) % 8 # 0
MaskLength(b) == IF b[2] >= 128 THEN 4 ELSE 0
HeaderLength(b) == CASE b[2] % 128 = 126 -> 4 [] b[2] % 128 = 127 -> 10 [] OTHER -> 2
Size(b) ==
    CASE b[2] % 128 = 126 -> 256 * b[3] + b[4]
      [] b[2] % 128 = 127 -> IF \E i \in 3..7 : b[i] # 0 THEN TooLong ELSE 256 * (256 * b[8] + b[9]) + b[10]
      [] OTHER -> b[2] % 128

\* Text and continuations make up one message, which ends with the final one.
Fragment(st, op, fin, data) ==
    LET parts == st.parts \o data IN
    IF op \notin {0, 1} \/ (op = 0 <=> st.pieces = 0) \/ Len(parts) > MaxMessage THEN Fail(st)
    ELSE IF fin THEN Event([st EXCEPT !.parts = <<>>, !.pieces = 0], "text", parts)
    ELSE [st EXCEPT !.parts = parts, !.pieces = @ + 1]

\* Mutant of Control: what was collected is given up for a control frame.
ControlRestarting(st, op, fin, data) ==
    LET clear == [st EXCEPT !.parts = <<>>, !.pieces = 0] IN
    CASE ~fin \/ Len(data) > MaxControl \/ op > 10 -> Fail(st)
      [] fin /\ Len(data) <= MaxControl /\ op = 8 -> Event(clear, "close", <<>>)
      [] fin /\ Len(data) <= MaxControl /\ op = 9 -> Event(clear, "ping", data)
      [] OTHER -> clear

Control(st, op, fin, data) ==
    IF ~fin \/ Len(data) > MaxControl \/ op > 10 THEN Fail(st)
    ELSE CASE op = 8 -> Event(st, "close", <<>>)
           [] op = 9 -> Event(st, "ping", data)
           [] OTHER -> st

\* FrameDecoder: a frame is taken once it is complete; masks are removed.
DaemonFrame(st) ==
    LET b == st.held
        start == HeaderLength(b) + MaskLength(b)
        mask == SubSeq(b, HeaderLength(b) + 1, start)
        payload == SubSeq(b, start + 1, start + Size(b))
        data == IF MaskLength(b) = 0 THEN payload ELSE Masked(payload, mask)
        rest == Dropped(st, start + Size(b)) IN
    IF Len(b) < 2 THEN Wait(st)
    ELSE IF Reserved(b) THEN Fail(st)
    ELSE IF Len(b) < HeaderLength(b) THEN Wait(st)
    ELSE IF Size(b) > MaxMessage THEN Fail(st)
    ELSE IF Len(b) < start + Size(b) THEN Wait(st)
    ELSE IF Opcode(b) >= 8 THEN Control(rest, Opcode(b), Fin(b), data)
    ELSE Fragment(rest, Opcode(b), Fin(b), data)

\* The remote receiver takes no masks, looks at a control frame's header at once,
\* and takes a close for an error.
SshFrame(st) ==
    LET b == st.held
        end == HeaderLength(b) + Size(b)
        data == SubSeq(b, HeaderLength(b) + 1, end)
        rest == Dropped(st, end) IN
    IF Len(b) < 2 THEN Wait(st)
    ELSE IF Reserved(b) \/ MaskLength(b) # 0 THEN Fail(st)
    ELSE IF Len(b) < HeaderLength(b) THEN Wait(st)
    ELSE IF Size(b) > MaxMessage \/ (Opcode(b) >= 8 /\ (~Fin(b) \/ Size(b) > MaxControl)) THEN Fail(st)
    ELSE IF Len(b) < end THEN Wait(st)
    ELSE CASE Opcode(b) = 9 -> Event(rest, "ping", data)
           [] Opcode(b) = 10 -> rest
           [] OTHER -> Fragment(rest, Opcode(b), Fin(b), data)

\* Desktop frames have four bytes of length, lowest first, and are never empty.
DesktopFrame(st) ==
    LET b == st.held
        size == IF b[4] # 0 THEN TooLong ELSE b[1] + 256 * (b[2] + 256 * b[3]) IN
    IF Len(b) < 4 THEN Wait(st)
    ELSE IF size = 0 \/ size > MaxMessage THEN Fail(st)
    ELSE IF Len(b) < 4 + size THEN Wait(st)
    ELSE Event(Dropped(st, 4 + size), "text", SubSeq(b, 5, 4 + size))

Newlines(b) == {i \in 1..Len(b) : b[i] = Newline}

\* Mutant of Line: an unfinished line is not measured.
LineUnmeasured(st) ==
    LET end == First(Newlines(st.held)) IN
    IF Newlines(st.held) = {} THEN Wait(st)
    ELSE IF end - 1 > MaxMessage THEN Fail(st)
    ELSE Event(Dropped(st, end), "text", SubSeq(st.held, 1, end - 1))

\* A line is too long as soon as too much of it has come.
Line(st) ==
    LET end == First(Newlines(st.held)) IN
    IF Newlines(st.held) = {} THEN IF Len(st.held) > MaxMessage THEN Fail(st) ELSE Wait(st)
    ELSE IF end - 1 > MaxMessage THEN Fail(st)
    ELSE Event(Dropped(st, end), "text", SubSeq(st.held, 1, end - 1))

OneTurn(st) ==
    CASE receiver = "daemon" -> IF st.open THEN DaemonFrame(st) ELSE Upgrade(st)
      [] receiver = "ssh" -> IF st.open THEN SshFrame(st) ELSE Upgrade(st)
      [] receiver = "desktop" -> DesktopFrame(st)
      [] OTHER -> Line(st)

------------------------------------------------------------------------------
\* The peer writes a frame, once it has answered the upgrade.
Say ==
    /\ Len(frames) < MaxFrames /\ (IsWeb => Blanks(head) # {})
    /\ \E f \in PeerFrame :
          /\ frames' = Append(frames, f)
          /\ stream' = stream \o Encoded(f)
          /\ said' = Append(said, Heard(said[Len(said)], f))
    /\ UNCHANGED <<receiver, head, received, state>>

\* A chunk arrives (push, receive, the data handlers).  The remote receiver limits
\* what it holds before it looks at it.
Chunk ==
    /\ state.pc = "idle"
    /\ \E n \in 1..MaxChunk :
          /\ received + n <= Len(stream)
          /\ received' = received + n
          /\ LET held == state.held \o SubSeq(stream, received + 1, received + n) IN
             state' = IF receiver = "ssh" /\ Len(held) > MaxMessage + MaxHead THEN [state EXCEPT !.pc = "overrun"]
                      ELSE [state EXCEPT !.pc = "busy", !.held = held]
    /\ UNCHANGED <<receiver, head, stream, frames, said>>

\* The receiver's loop goes around once.
Work ==
    /\ state.pc = "busy"
    /\ state' = OneTurn(state)
    /\ UNCHANGED <<receiver, head, stream, frames, said, received>>

FramingNext == Say \/ Chunk \/ Work
FramingSpec == FramingInit /\ [][FramingNext]_framingVars

------------------------------------------------------------------------------
\* The frames before the i-th have arrived, and no other.
Arrived(i) == said[i].at <= received /\ (i < Len(said) => received < said[i + 1].at)

\* When a receiver waits, it has reported exactly the messages of the frames that
\* have wholly arrived, up to the first one that breaks the rules; and it has failed
\* if such a frame (or a refused or endless answer to the upgrade) has arrived, and
\* only if one has begun to.  Where the chunks were cut matters in two cases only: an
\* answer that is longer than the limit is given up if the limit passes before its
\* end is there; and the remote receiver gives up, even in the middle of what is
\* right, if a chunk brings what it holds over its own limit.  Then too it has
\* reported all that frames before had to say, and nothing else
\* (FrameDecoder, receive, the data handlers).
FramesAreReported ==
    /\ state.pc \in {"idle", "failed"} =>
          /\ received < said[1].at => state.events = <<>> /\ (state.pc = "failed" => received > MaxHead)
          /\ \A i \in 1..Len(said) : Arrived(i) =>
                /\ state.events = said[i].events
                /\ ~said[i].ok => state.pc = "failed"
                /\ state.pc = "failed" /\ said[i].ok =>
                      i < Len(said) /\ ~said[i + 1].ok /\ said[i].at < received
    /\ state.pc = "overrun" =>
          \/ ~state.open /\ state.events = <<>> /\ received > MaxMessage + MaxHead
          \/ \E i \in 1..Len(said) : /\ said[i].ok /\ state.events = said[i].events
                                     /\ received > said[i].at + MaxMessage + MaxHead

\* Whatever a peer writes, a receiver that waits for more holds less than one head,
\* or one frame or line of the greatest length and its header, and one message.
HeldIsBounded ==
    state.pc = "idle" =>
        /\ Len(state.held) <= CASE receiver = "lines" -> MaxMessage
                                [] receiver = "desktop" -> MaxMessage + 3
                                [] OTHER -> IF state.open THEN MaxMessage + 13 ELSE MaxHead
        /\ Len(state.parts) <= MaxMessage

==============================================================================
