----------------------------- MODULE MsgWriter -----------------------------
(***************************************************************************)
(* The encoders WriteMsgSignal and WriteMsgReply of the message codec.     *)
(* An encoder validates its arguments, writes the frame in several Write   *)
(* calls, any of which can fail, and closes the writer on every path.      *)
(* One call runs at a time, on a writer of its own; the frame is the       *)
(* sequence of the bytes written.                                          *)
(***************************************************************************)
EXTENDS Naturals, Sequences

CONSTANTS
    Names,        \* signal names: sequences of bytes
    Payloads,     \* payloads: sequences of bytes
    Identifiers   \* request identifiers: sequences of 8 bytes

Byte == 0..255
IsBytes(s) == \A i \in 1..Len(s) : s[i] \in Byte

ASSUME /\ \A n \in Names : IsBytes(n)
       /\ \A p \in Payloads : IsBytes(p)
       /\ \A id \in Identifiers : IsBytes(id) /\ Len(id) = 8

VARIABLES
    call,     \* the arguments of the call in progress
    pc,       \* where the call stands
    buf,      \* the bytes written to the writer
    closed,   \* how often the writer was closed
    result    \* what the call returned

vars == <<call, pc, buf, closed, result>>

Encodings == {"Binary", "Utf8", "Utf16"}

\* The type tag of a frame: one byte for each kind and encoding.
Tag == [Signal |-> [Binary |-> 61, Utf8 |-> 62, Utf16 |-> 63],
        Reply  |-> [Binary |-> 191, Utf8 |-> 192, Utf16 |-> 193]]

SignalCalls == [kind : {"Signal"}, name : Names, encoding : Encodings,
                payload : Payloads, safeMode : BOOLEAN, id : {<<>>}]

ReplyCalls == [kind : {"Reply"}, name : {<<>>}, encoding : Encodings,
               payload : Payloads, safeMode : {FALSE}, id : Identifiers]

NoCall == [kind |-> "None", name |-> <<>>, encoding |-> "Binary",
           payload |-> <<>>, safeMode |-> FALSE, id |-> <<>>]

Init ==
    /\ call = NoCall /\ pc = "idle"
    /\ buf = <<>> /\ closed = 0 /\ result = "none"

\* A call begins, with a writer nothing was written to.
Begin(c) ==
    /\ pc = "idle"
    /\ call' = c /\ pc' = "validate"
    /\ buf' = <<>> /\ closed' = 0 /\ result' = "none"

\* The call has returned; the caller goes on.
Return ==
    /\ pc = "done"
    /\ call' = NoCall /\ pc' = "idle"
    /\ buf' = <<>> /\ closed' = 0 /\ result' = "none"

-----------------------------------------------------------------------------
(* The steps the two encoders are made of.                                 *)

CloseAndFail_Twice ==
    /\ closed' = closed + 2
    /\ result' = "err"
    /\ pc' = "done"

\* An error path: close the writer and return the error, whether or not
\* the Close fails too.
CloseAndFail ==
    /\ closed' = closed + 1
    /\ result' = "err"
    /\ pc' = "done"

Write_NoClose(at, bytes, next) ==
    /\ pc = at
    /\ \/ buf' = buf \o bytes /\ pc' = next /\ UNCHANGED <<closed, result>>
       \/ result' = "err" /\ pc' = "done" /\ UNCHANGED <<buf, closed>>
    /\ UNCHANGED call

\* writer.Write(bytes): it succeeds and the call goes on, or it fails and
\* the call closes the writer and returns.
Write(at, bytes, next) ==
    /\ pc = at
    /\ \/ buf' = buf \o bytes /\ pc' = next /\ UNCHANGED <<closed, result>>
       \/ CloseAndFail /\ UNCHANGED buf
    /\ UNCHANGED call

\* Validation: a rejected call closes the writer and returns.
Validate(rejected, next) ==
    /\ pc = "validate"
    /\ \/ rejected /\ CloseAndFail
       \/ ~rejected /\ pc' = next /\ UNCHANGED <<closed, result>>
    /\ UNCHANGED <<call, buf>>

\* The last step: writer.Close(), whose error is the result of the call.
Close ==
    /\ pc = "close"
    /\ closed' = closed + 1
    /\ result' \in {"ok", "err"}
    /\ pc' = "done"
    /\ UNCHANGED <<call, buf>>

-----------------------------------------------------------------------------
(* WriteMsgSignal.                                                         *)

NameTooLong(c) == Len(c.name) > 255

OddUtf16(c) == c.encoding = "Utf16" /\ Len(c.payload) % 2 # 0

UnsafeName(c) ==
    c.safeMode /\ \E i \in 1..Len(c.name) : c.name[i] < 32 \/ c.name[i] > 126

SignalRejected_NoCharset(c) == NameTooLong(c) \/ OddUtf16(c)

SignalRejected(c) == NameTooLong(c) \/ OddUtf16(c) \/ UnsafeName(c)

SignalPadded_OnePlusN(c) == c.encoding = "Utf16" /\ (1 + Len(c.name)) % 2 # 0

\* The header padding byte of a signal.
SignalPadded(c) == c.encoding = "Utf16" /\ Len(c.name) % 2 # 0

Sig_Validate == call.kind = "Signal" /\ Validate(SignalRejected(call), "type")

Sig_WriteType ==
    call.kind = "Signal" /\ Write("type", <<Tag.Signal[call.encoding]>>, "nameLen")

\* byte(len(name))
Sig_WriteNameLen ==
    call.kind = "Signal" /\ Write("nameLen", <<Len(call.name) % 256>>, "name")

Sig_WriteName ==
    call.kind = "Signal"
    /\ Write("name", call.name, IF SignalPadded(call) THEN "pad" ELSE "payload")

Sig_WritePad == call.kind = "Signal" /\ Write("pad", <<0>>, "payload")

Sig_WritePayload == call.kind = "Signal" /\ Write("payload", call.payload, "close")

Sig_Close == call.kind = "Signal" /\ Close

WriteMsgSignal ==
    \/ Sig_Validate \/ Sig_WriteType \/ Sig_WriteNameLen \/ Sig_WriteName
    \/ Sig_WritePad \/ Sig_WritePayload \/ Sig_Close

-----------------------------------------------------------------------------
(* WriteMsgReply.                                                          *)

ReplyRejected(c) == OddUtf16(c)

\* The header padding byte of a reply.
ReplyPadded(c) == c.encoding = "Utf16"

Rep_Validate == call.kind = "Reply" /\ Validate(ReplyRejected(call), "type")

Rep_WriteType ==
    call.kind = "Reply" /\ Write("type", <<Tag.Reply[call.encoding]>>, "id")

Rep_WriteId ==
    call.kind = "Reply"
    /\ Write("id", call.id, IF ReplyPadded(call) THEN "pad" ELSE "payload")

Rep_WritePad == call.kind = "Reply" /\ Write("pad", <<0>>, "payload")

Rep_WritePayload == call.kind = "Reply" /\ Write("payload", call.payload, "close")

Rep_Close == call.kind = "Reply" /\ Close

WriteMsgReply ==
    \/ Rep_Validate \/ Rep_WriteType \/ Rep_WriteId
    \/ Rep_WritePad \/ Rep_WritePayload \/ Rep_Close

-----------------------------------------------------------------------------
Next ==
    \/ \E c \in SignalCalls \cup ReplyCalls : Begin(c)
    \/ WriteMsgSignal
    \/ WriteMsgReply
    \/ Return

Spec == Init /\ [][Next]_vars

-----------------------------------------------------------------------------
(* The parser's view of a frame, and the message a call stands for.        *)

\* The encoding a tag of the kind stands for.
EncodingOf(kind, tag) == CHOOSE e \in Encodings : Tag[kind][e] = tag

\* A UTF-16 payload begins on a 2-byte boundary: after a header of an odd
\* number of bytes one byte is skipped.
PayloadStart(encoding, header) ==
    IF encoding = "Utf16" /\ header % 2 = 1 THEN header + 1 ELSE header

ParseSignal(f) ==
    LET encoding == EncodingOf("Signal", f[1])
        n        == f[2]
    IN  [kind |-> "Signal", encoding |-> encoding,
         name |-> SubSeq(f, 3, 2 + n), id |-> <<>>,
         payload |-> SubSeq(f, PayloadStart(encoding, 2 + n) + 1, Len(f))]

ParseReply(f) ==
    LET encoding == EncodingOf("Reply", f[1])
    IN  [kind |-> "Reply", encoding |-> encoding,
         name |-> <<>>, id |-> SubSeq(f, 2, 9),
         payload |-> SubSeq(f, PayloadStart(encoding, 9) + 1, Len(f))]

Parse(f) ==
    IF f[1] \in {Tag.Signal[e] : e \in Encodings} THEN ParseSignal(f)
    ELSE ParseReply(f)

Message(c) == [kind |-> c.kind, encoding |-> c.encoding, name |-> c.name,
               id |-> c.id, payload |-> c.payload]

\* What the codec accepts: a name of at most 255 bytes, in safe mode of
\* bytes 32 to 126 only, and a UTF-16 payload of even length.
Valid(c) ==
    /\ Len(c.name) <= 255
    /\ c.safeMode => \A i \in 1..Len(c.name) : c.name[i] \in 32..126
    /\ c.encoding = "Utf16" => Len(c.payload) % 2 = 0

-----------------------------------------------------------------------------
(* Properties.                                                             *)

\* The variables hold values of their types: the frame is a sequence of
\* bytes, the name length included, and no path closes the writer a second
\* time.
TypeOK ==
    /\ call \in SignalCalls \cup ReplyCalls \cup {NoCall}
    /\ pc \in {"idle", "validate", "type", "nameLen", "name", "id", "pad",
               "payload", "close", "done"}
    /\ IsBytes(buf)
    /\ closed \in 0..1
    /\ result \in {"none", "ok", "err"}

\* "closing it eventually": on every path through WriteMsgSignal and
\* WriteMsgReply, after a rejected argument, a failed Write or the last
\* Write, the writer is closed once by the time the call returns, and not
\* before.
WriterClosedExactlyOnce == closed = IF pc = "done" THEN 1 ELSE 0

\* A call with arguments the codec does not accept returns an error and
\* has written nothing, whichever of the three tests of WriteMsgSignal or
\* the one of WriteMsgReply it fails.
InvalidWritesNothing ==
    pc # "idle" /\ ~Valid(call) => buf = <<>> /\ result # "ok"

\* A frame written without error parses back to the message it was written
\* for: tag, name length, name, padding and payload are laid out as the
\* parser reads them, for every name length and payload.
RoundTrip ==
    pc = "done" /\ result = "ok" => Parse(buf) = Message(call)

=============================================================================
