------------------------------- MODULE WireLink -------------------------------
(***************************************************************************)
(* The bytes between watch and host: the frames transport.c writes and     *)
(* polls, its decoder (watch_protocol.c, byte by byte), the connection     *)
(* handler of server.rs with its decoder (protocol.rs, read by read), and  *)
(* a TCP connection that cuts the stream anywhere and can end anywhere.    *)
(*                                                                         *)
(* A byte is <<n, k>>, the k-th of the n-th frame its sender began on this *)
(* connection; the delimiters are bytes of no frame.  What a message means *)
(* is the business of WatchSync and WatchSystem; here a mutation or a      *)
(* snapshot has any of the outcomes the runtime's handler can have.        *)
(***************************************************************************)
EXTENDS Integers, Sequences, SequencesExt

CONSTANTS
    MaxFrame,     \* WATCH_PROTOCOL_MAX_FRAME_SIZE = MAX_FRAME_BYTES
    WatchChunk,   \* bytes one zsock_recv returns at most
    HostChunk,    \* bytes one stream.read returns at most
    HostFrames    \* the frames a host may write

ASSUME LinkAssumption ==
    MaxFrame \in Nat \ {0} /\ WatchChunk \in Nat \ {0} /\ HostChunk \in Nat \ {0}

\* An empty line is no frame: HostWritesEmpty.
ASSUME FramesAssumption == \A f \in HostFrames : f.size \in Nat \ {0} /\ f.cr \in BOOLEAN

LF == <<0, 0>>
CR == <<0, 1>>

\* One JSON object: `sound` is valid UTF-8, a JSON object, and numbers in range;
\* `cr` says that its delimiter is CR LF.
Frame(type, fields, size) ==
    [type |-> type, fields |-> fields, size |-> size,
     version |-> 1, sound |-> TRUE, replyTo |-> TRUE, cr |-> FALSE]

Bytes(n, f) == [k \in 1 .. f.size |-> <<n, k>>] \o IF f.cr THEN <<CR, LF>> ELSE <<LF>>

\* The frames transport.c writes, by the templates of its snprintk calls.
Hello == Frame("hello", {"device_id", "session_id", "runtime_version",
                         "protocol_versions", "simulator"}, 1)
SyncRequest == Frame("sync_request", {"last_revision"}, 1)
SetPlaying == Frame("action", {"app_id", "action_id", "arguments"}, MaxFrame)
Unsupported == Frame("command_result", {"status", "code"}, 1)
-----------------------------------------------------------------------------
(* What each side takes for a message: its table of payload fields, and    *)
(* the checks of its decoder.                                              *)

\* message_types of watch_protocol.c.
WatchRequires ==
    [state_set |-> {"path", "value", "revision"},
     state_patch |-> {"path", "value", "revision"},
     list_insert |-> {"path", "index", "value", "revision"},
     list_remove |-> {"path", "index", "revision"},
     list_update |-> {"path", "index", "value", "revision"},
     refresh |-> {"scope"}, app_open |-> {"app_id"},
     show_toast |-> {"message", "duration_ms"},
     show_dialog |-> {"title", "message", "actions"}, cache_invalidate |-> {"path"},
     app_opened |-> {"app_id"}, action |-> {"app_id", "action_id", "arguments"},
     button |-> {"button", "gesture"}, gesture |-> {"gesture"},
     input |-> {"input_id", "value"}, refresh_request |-> {"scope"},
     hello |-> {"device_id", "session_id", "runtime_version", "protocol_versions",
                "simulator"},
     capabilities |-> {"features", "apps", "display"},
     ping |-> {"nonce"}, pong |-> {"nonce"},
     sync_request |-> {"last_revision"}, sync_response |-> {"revision", "state"},
     command_result |-> {"status", "code"}]

\* MESSAGE_TYPES and required_fields of protocol.rs.
MessageTypes ==
    {"state_set", "state_patch", "list_insert", "list_remove", "list_update", "refresh",
     "app_open", "show_toast", "show_dialog", "cache_invalidate", "app_opened", "action",
     "button", "gesture", "input", "refresh_request", "hello", "capabilities", "ping",
     "pong", "sync_request", "sync_response", "command_result"}

RequiredFields(t) ==
    CASE t = "hello" -> {"device_id", "session_id", "runtime_version", "protocol_versions",
                         "simulator"}
      [] t = "capabilities" -> {"features", "apps", "display"}
      [] t \in {"ping", "pong"} -> {"nonce"}
      [] t = "sync_request" -> {"last_revision"}
      [] t = "sync_response" -> {"revision", "state"}
      [] t \in {"state_set", "state_patch"} -> {"path", "value", "revision"}
      [] t \in {"list_insert", "list_update"} -> {"path", "index", "value", "revision"}
      [] t = "list_remove" -> {"path", "index", "revision"}
      [] t \in {"refresh", "refresh_request"} -> {"scope"}
      [] t \in {"app_open", "app_opened"} -> {"app_id"}
      [] t = "show_toast" -> {"message", "duration_ms"}
      [] t = "show_dialog" -> {"title", "message", "actions"}
      [] t = "cache_invalidate" -> {"path"}
      [] t = "action" -> {"app_id", "action_id", "arguments"}
      [] t = "button" -> {"button", "gesture"}
      [] t = "gesture" -> {"gesture"}
      [] t = "input" -> {"input_id", "value"}
      [] t = "command_result" -> {"status", "code"}
      [] OTHER -> {}

HostRequires == [t \in MessageTypes |-> RequiredFields(t)]

\* The two lists are kept by hand in two languages.
ASSUME TablesAgree == WatchRequires = HostRequires

WithoutCR(bytes) == IF bytes # <<>> /\ Last(bytes) = CR THEN Front(bytes) ELSE bytes

\* The bytes are one frame of the log from its first to its last byte: any
\* other mixture is no JSON object.
IsWhole(bytes, log) ==
    /\ bytes # <<>> /\ bytes[1][1] \in DOMAIN log
    /\ bytes = [k \in 1 .. log[bytes[1][1]].size |-> <<bytes[1][1], k>>]
-----------------------------------------------------------------------------
VARIABLES
    socket,      \* socket_fd >= 0
    serving,     \* the host's handle_connection runs for the watch's connection
    toWatch,     \* bytes under way
    toHost,
    hostLog,     \* history: the frames the host wrote on this connection
    watchLog,    \* history: the frames the watch began on this connection
    cut,         \* history: the first frame of watchLog not written whole, or 0
    decoder,     \* the watch's struct watch_frame_decoder
    chunk,       \* what zsock_recv returned and the decoder has not seen yet
    handled,     \* history: the frames given to handle_message
    watchError,  \* why the watch ended the connection last: "", "frame", "handler"
    buffered,    \* FrameDecoder.buffered
    phase,       \* of handle_connection: "read", "push", "serve"
    decoded,     \* messages of FrameDecoder::push not handled yet
    served,      \* history: the frames the host handled on this connection
    hostError    \* why the host ended the connection last: "", "frame", "io"

watchSide == <<socket, decoder, chunk, handled, watchError>>
hostSide == <<serving, buffered, phase, decoded, served, hostError>>
wires == <<toWatch, toHost>>
logs == <<hostLog, watchLog, cut>>
linkVars == <<watchSide, hostSide, wires, logs>>

LinkInit ==
    /\ socket = FALSE /\ serving = FALSE
    /\ toWatch = <<>> /\ toHost = <<>>
    /\ hostLog = <<>> /\ watchLog = <<>> /\ cut = 0
    /\ decoder = <<>> /\ chunk = <<>> /\ handled = <<>> /\ watchError = ""
    /\ buffered = <<>> /\ phase = "read" /\ decoded = <<>> /\ served = <<>>
    /\ hostError = ""

\* Mutant: reply_to is not asked for.
WatchDecodes_NoReplyTo(bytes) ==
    /\ Len(bytes) <= MaxFrame /\ IsWhole(bytes, hostLog)
    /\ LET f == hostLog[bytes[1][1]]
       IN /\ f.sound /\ f.version = 1 /\ f.type \in DOMAIN WatchRequires
          /\ WatchRequires[f.type] \subseteq f.fields

\* watch_protocol_decode with validate_payload.
WatchDecodes(bytes) ==
    /\ Len(bytes) <= MaxFrame /\ IsWhole(bytes, hostLog)
    /\ LET f == hostLog[bytes[1][1]]
       IN /\ f.sound /\ f.version = 1 /\ f.type \in DOMAIN WatchRequires
          /\ f.type = "command_result" => f.replyTo
          /\ WatchRequires[f.type] \subseteq f.fields

\* Message::validate.
Valid(f) ==
    /\ f.version = 1 /\ f.type \in DOMAIN HostRequires
    /\ HostRequires[f.type] \subseteq f.fields
    /\ f.type = "command_result" => f.replyTo

\* Mutant: what follows the object is not looked at.
HostDecodes_TrailingIgnored(bytes) ==
    \E frame \in Prefixes(WithoutCR(bytes)) :
        /\ Len(frame) <= MaxFrame /\ IsWhole(frame, watchLog)
        /\ watchLog[frame[1][1]].sound /\ Valid(watchLog[frame[1][1]])

\* decode_frame.
HostDecodes(bytes) ==
    LET frame == WithoutCR(bytes)
    IN /\ Len(frame) <= MaxFrame /\ IsWhole(frame, watchLog)
       /\ watchLog[frame[1][1]].sound /\ Valid(watchLog[frame[1][1]])

\* Mutant: the decoder keeps the part of a frame.
Disconnect_DecoderKept ==
    /\ socket' = FALSE
    /\ chunk' = <<>> /\ UNCHANGED decoder

\* disconnect.
Disconnect ==
    /\ socket' = FALSE
    /\ decoder' = <<>> /\ chunk' = <<>>

\* send_bytes: the socket takes the whole frame, or a part and then fails.  To
\* a host that is gone the bytes are lost either way.
Send(f) ==
    /\ toHost' = IF serving THEN toHost \o Bytes(Len(watchLog) + 1, f) ELSE toHost
    /\ watchLog' = Append(watchLog, f)
    /\ UNCHANGED <<toWatch, hostLog, cut>>

SendCut(f) ==
    LET n == Len(watchLog) + 1
    IN \E part \in Prefixes(Bytes(n, f)) \ {Bytes(n, f)} :
         /\ toHost' = IF serving THEN toHost \o part ELSE toHost
         /\ IF part = <<>> THEN UNCHANGED <<watchLog, cut>>
            ELSE /\ watchLog' = Append(watchLog, f)
                 /\ cut' = IF cut = 0 THEN n ELSE cut
         /\ UNCHANGED <<toWatch, hostLog>>
-----------------------------------------------------------------------------
(* The watch: transport_poll and what it calls.                            *)

\* connect_if_due and send_bootstrap, once the old handler of the host is done;
\* RECONNECT_INTERVAL_MS is "some time later".
Connect ==
    /\ ~socket /\ ~serving
    /\ socket' = TRUE /\ serving' = TRUE
    /\ watchLog' = <<Hello, SyncRequest>>
    /\ toHost' = Bytes(1, Hello) \o Bytes(2, SyncRequest)
    /\ toWatch' = <<>> /\ hostLog' = <<>> /\ cut' = 0
    /\ handled' = <<>> /\ served' = <<>> /\ watchError' = "" /\ hostError' = ""
    /\ UNCHANGED <<decoder, chunk, buffered, phase, decoded>>

\* The bootstrap is cut, and the watch closes the connection it just opened.
ConnectCut ==
    /\ ~socket /\ ~serving
    /\ Disconnect /\ serving' = TRUE
    /\ watchLog' = <<Hello, SyncRequest>>
    /\ LET bytes == Bytes(1, Hello) \o Bytes(2, SyncRequest)
       IN \E part \in Prefixes(bytes) \ {bytes} :
            /\ toHost' = part
            /\ cut' = IF Len(part) <= Hello.size THEN 1 ELSE 2
    /\ toWatch' = <<>> /\ hostLog' = <<>>
    /\ handled' = <<>> /\ served' = <<>> /\ watchError' = "" /\ hostError' = ""
    /\ UNCHANGED <<buffered, phase, decoded>>

\* zsock_recv returns a part of what has arrived.
Receive ==
    /\ socket /\ chunk = <<>>
    /\ \E part \in Prefixes(toWatch) :
         /\ Len(part) \in 1 .. WatchChunk
         /\ chunk' = part
         /\ toWatch' = SubSeq(toWatch, Len(part) + 1, Len(toWatch))
    /\ UNCHANGED <<socket, decoder, handled, watchError, hostSide, toHost, logs>>

\* Mutant: 0 is taken for "nothing yet".
ReceiveEnd_Ignored ==
    /\ socket /\ chunk = <<>> /\ toWatch = <<>> /\ ~serving
    /\ UNCHANGED linkVars

\* zsock_recv returns 0 or an error: the host has closed, or the link broke.
ReceiveEnd ==
    /\ socket /\ chunk = <<>> /\ toWatch = <<>> /\ ~serving
    /\ Disconnect
    /\ UNCHANGED <<handled, watchError, hostSide, wires, logs>>

\* Mutant: the buffer's end is not looked at.
PushByte_Unbounded ==
    /\ chunk # <<>> /\ Head(chunk) # LF
    /\ decoder' = Append(decoder, Head(chunk)) /\ chunk' = Tail(chunk)
    /\ UNCHANGED <<socket, handled, watchError, hostSide, wires, logs>>

\* A byte of a frame.
PushByte ==
    /\ chunk # <<>> /\ Head(chunk) # LF /\ Len(decoder) < MaxFrame
    /\ decoder' = Append(decoder, Head(chunk)) /\ chunk' = Tail(chunk)
    /\ UNCHANGED <<socket, handled, watchError, hostSide, wires, logs>>

\* An LF with nothing before it, or only a CR.
PushEmpty ==
    /\ chunk # <<>> /\ Head(chunk) = LF /\ WithoutCR(decoder) = <<>>
    /\ decoder' = <<>> /\ chunk' = Tail(chunk)
    /\ UNCHANGED <<socket, handled, watchError, hostSide, wires, logs>>

\* One byte too many for the buffer, or a frame watch_protocol_decode refuses.
PushRefused ==
    /\ chunk # <<>>
    /\ \/ Head(chunk) # LF /\ Len(decoder) >= MaxFrame
       \/ Head(chunk) = LF /\ WithoutCR(decoder) # <<>> /\ ~WatchDecodes(WithoutCR(decoder))
    /\ watchError' = "frame" /\ Disconnect
    /\ UNCHANGED <<handled, hostSide, wires, logs>>

\* The types watch_sync_handle does not pass over.
Synchronizing == {"state_set", "state_patch", "sync_response"}
Commands == {"refresh", "app_open", "show_toast", "show_dialog", "cache_invalidate"}

\* A message, and its handler succeeds: a command is answered, a mutation or a
\* snapshot may make the watch ask for another snapshot.
PushMessage ==
    LET frame == WithoutCR(decoder)
        type == hostLog[frame[1][1]].type
    IN /\ chunk # <<>> /\ Head(chunk) = LF /\ frame # <<>> /\ WatchDecodes(frame)
       /\ handled' = Append(handled, frame[1][1])
       /\ decoder' = <<>> /\ chunk' = Tail(chunk)
       /\ \/ type \in Commands /\ Send(Unsupported)
          \/ type \in Synchronizing /\ Send(SyncRequest)
          \/ type \notin Commands /\ UNCHANGED <<wires, logs>>
       /\ UNCHANGED <<socket, watchError, hostSide>>

\* Its handler fails: the answer is cut, or the runtime refuses the content.
\* The rest of the chunk is not looked at.
PushFails ==
    LET frame == WithoutCR(decoder)
        type == hostLog[frame[1][1]].type
    IN /\ chunk # <<>> /\ Head(chunk) = LF /\ frame # <<>> /\ WatchDecodes(frame)
       /\ handled' = Append(handled, frame[1][1])
       /\ watchError' = "handler" /\ Disconnect
       /\ \/ type \in Commands /\ SendCut(Unsupported)
          \/ type \in Synchronizing /\ SendCut(SyncRequest)
          \/ type \in Synchronizing /\ UNCHANGED <<wires, logs>>
       /\ UNCHANGED hostSide
-----------------------------------------------------------------------------
(* The host: handle_connection and FrameDecoder::push.                     *)

\* handle_connection returns and the stream is closed.
HostEnds ==
    /\ serving' = FALSE
    /\ buffered' = <<>> /\ phase' = "read" /\ decoded' = <<>>
    /\ toHost' = <<>>

HostReads ==
    /\ serving /\ phase = "read"
    /\ \E part \in Prefixes(toHost) :
         /\ Len(part) \in 1 .. HostChunk
         /\ buffered' = buffered \o part
         /\ toHost' = SubSeq(toHost, Len(part) + 1, Len(toHost))
    /\ phase' = "push"
    /\ UNCHANGED <<watchSide, serving, decoded, served, hostError, toWatch, logs>>

HostSeesEnd ==
    /\ serving /\ phase = "read" /\ ~socket
    /\ HostEnds
    /\ UNCHANGED <<watchSide, served, hostError, toWatch, logs>>

FirstLF == CHOOSE k \in DOMAIN buffered :
             buffered[k] = LF /\ \A j \in 1 .. k - 1 : buffered[j] # LF
HasLF == \E k \in DOMAIN buffered : buffered[k] = LF
Complete == SubSeq(buffered, 1, FirstLF - 1)

\* One pass of push's loop: a complete frame is taken out and decoded.
HostPushes ==
    /\ phase = "push" /\ HasLF
    /\ buffered' = SubSeq(buffered, FirstLF + 1, Len(buffered))
    /\ \/ WithoutCR(Complete) = <<>> /\ UNCHANGED decoded
       \/ HostDecodes(Complete) /\ decoded' = Append(decoded, Complete[1][1])
    /\ UNCHANGED <<watchSide, serving, phase, served, hostError, wires, logs>>

\* A frame that is no message, or too much without an LF: push returns the
\* error, and with it goes what it had decoded before.
HostRefuses ==
    /\ phase = "push"
    /\ \/ HasLF /\ WithoutCR(Complete) # <<>> /\ ~HostDecodes(Complete)
       \/ ~HasLF /\ Len(buffered) > MaxFrame
    /\ hostError' = "frame" /\ HostEnds
    /\ UNCHANGED <<watchSide, served, toWatch, logs>>

\* Mutant: at most one frame is taken out of a read.
HostPushed_Early ==
    /\ phase = "push" /\ Len(buffered) <= MaxFrame
    /\ phase' = "serve"
    /\ UNCHANGED <<watchSide, serving, buffered, decoded, served, hostError, wires, logs>>

\* No complete frame is left, and the rest is not too long.
HostPushed ==
    /\ phase = "push" /\ ~HasLF /\ Len(buffered) <= MaxFrame
    /\ phase' = "serve"
    /\ UNCHANGED <<watchSide, serving, buffered, decoded, served, hostError, wires, logs>>

\* One pass of the loop over the messages; its answers are HostWrites.
HostServes ==
    /\ phase = "serve"
    /\ IF decoded = <<>> THEN phase' = "read" /\ UNCHANGED <<decoded, served>>
       ELSE /\ served' = Append(served, Head(decoded)) /\ decoded' = Tail(decoded)
            /\ UNCHANGED phase
    /\ UNCHANGED <<watchSide, serving, buffered, hostError, wires, logs>>

\* send, while a connection is served: any frame, at any time.
HostWrites ==
    /\ serving
    /\ \E f \in HostFrames :
         /\ hostLog' = Append(hostLog, f)
         /\ toWatch' = toWatch \o Bytes(Len(hostLog) + 1, f)
    /\ UNCHANGED <<watchSide, hostSide, toHost, watchLog, cut>>

\* An empty line.
HostWritesEmpty ==
    /\ serving
    /\ \E line \in {<<LF>>, <<CR, LF>>} : toWatch' = toWatch \o line
    /\ UNCHANGED <<watchSide, hostSide, toHost, logs>>

\* The connection is lost with what is under way, or a write of the host fails
\* and is cut.
LinkBreaks ==
    /\ serving
    /\ hostError' = "io" /\ HostEnds
    /\ toWatch' \in Prefixes(toWatch)
    /\ UNCHANGED <<watchSide, served, logs>>
=============================================================================
