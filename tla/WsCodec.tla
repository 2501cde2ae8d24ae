------------------------------ MODULE WsCodec ------------------------------
(***************************************************************************)
(* The WebSocket frame codec of source/websocket.c: masking, the header    *)
(* parser and the frame formatter (RFC 6455, 5.2).  Bytes are integers     *)
(* 0..255.  A parsed frame is the struct ws_frame; the parser's "false,    *)
(* need frame_length bytes" answer has ok = FALSE.                          *)
(*                                                                         *)
(* Payload lengths stay below 2^31, so of the eight bytes of a 64-bit      *)
(* length the upper four are 0 (TLC's integers are 32-bit).                 *)
(***************************************************************************)
EXTENDS Integers, Sequences, SequencesExt, Bitwise

WS_FIN_OPCODE_IDX == 1          \* websocket.h, as 1-based indices
WS_MASK_LEN_IDX   == 2
WS_EXTLEN_IDX     == 3
WS_MASK_SIZE      == 4
WS_EXTLEN16_SIZE  == 2
WS_EXTLEN64_SIZE  == 8
WS_MIN_HEADER_SIZE == 2
WS_EXTLEN16_MARK  == 126
WS_EXTLEN64_MARK  == 127
WS_FIN_FLAG       == 128
WS_MASK_FLAG      == 128

WS_OPCODE_CONTINUE == 0
WS_OPCODE_TEXT     == 1
WS_OPCODE_BINARY   == 2
WS_OPCODE_CLOSE    == 8
WS_OPCODE_PING     == 9
WS_OPCODE_PONG     == 10

NoMask == <<>>                  \* a NULL mask pointer

\* ws_apply_mask: XOR with the 4-byte key indexed modulo 4.
ApplyMask(data, mask) ==
    [i \in DOMAIN data |-> data[i] ^^ mask[((i - 1) % WS_MASK_SIZE) + 1]]

\* Byte k (0 = least significant) of a length, as (length >> 8k) & 0xFF.
LengthByte(length, k) == IF k >= 4 THEN 0 ELSE (length \div (256 ^ k)) % 256

\* The big-endian value of a sequence of bytes.
BigEndian(bytes) == FoldLeft(LAMBDA acc, b : acc * 256 + b, 0, bytes)

\* Mutant: the 16-bit length is used only from 127 bytes on.
FormatHeaderLate(flags, mask, length) ==
    LET maskFlag == IF mask = NoMask THEN 0 ELSE WS_MASK_FLAG
        lenBytes ==
            CASE length > 65535 ->
                   <<WS_EXTLEN64_MARK + maskFlag>> \o
                   [i \in 1..8 |-> LengthByte(length, 8 - i)]
              [] length > 126 ->
                   <<WS_EXTLEN16_MARK + maskFlag,
                     LengthByte(length, 1), LengthByte(length, 0)>>
              [] OTHER -> <<length + maskFlag>>
    IN <<flags>> \o lenBytes \o mask

\* ws_format_frame up to the payload: the flags byte, the 7-bit length or
\* its 16/64-bit extension, the mask.
FormatHeader(flags, mask, length) ==
    LET maskFlag == IF mask = NoMask THEN 0 ELSE WS_MASK_FLAG
        lenBytes ==
            CASE length > 65535 ->
                   <<WS_EXTLEN64_MARK + maskFlag>> \o
                   [i \in 1..8 |-> LengthByte(length, 8 - i)]
              [] length >= 126 ->
                   <<WS_EXTLEN16_MARK + maskFlag,
                     LengthByte(length, 1), LengthByte(length, 0)>>
              [] OTHER -> <<length + maskFlag>>
    IN <<flags>> \o lenBytes \o mask

\* ws_format_frame: the header, then the payload, masked in place when a
\* mask is given.
FormatFrame(flags, mask, data) ==
    FormatHeader(flags, mask, Len(data)) \o
    (IF mask = NoMask THEN data ELSE ApplyMask(data, mask))

\* ws_parse_frame on the first bytes of data.
ParseFrame(data) ==
    IF Len(data) < WS_MIN_HEADER_SIZE
    THEN [ok |-> FALSE, frameLength |-> WS_MIN_HEADER_SIZE]
    ELSE
    LET fin      == data[WS_FIN_OPCODE_IDX] >= WS_FIN_FLAG
        maskFlag == data[WS_MASK_LEN_IDX] >= WS_MASK_FLAG
        opcode   == data[WS_FIN_OPCODE_IDX] % 16
        len7     == data[WS_MASK_LEN_IDX] % 128
        extSize  == CASE len7 = WS_EXTLEN16_MARK -> WS_EXTLEN16_SIZE
                      [] len7 = WS_EXTLEN64_MARK -> WS_EXTLEN64_SIZE
                      [] OTHER -> 0
        maskOffset    == WS_MIN_HEADER_SIZE + extSize
        payloadOffset == maskOffset + (IF maskFlag THEN WS_MASK_SIZE ELSE 0)
        payloadLength ==
            IF extSize = 0 THEN len7
            ELSE BigEndian(SubSeq(data, WS_EXTLEN_IDX, WS_EXTLEN_IDX + extSize - 1))
    IN CASE Len(data) < payloadOffset ->
              [ok |-> FALSE, frameLength |-> payloadOffset]
         [] Len(data) < payloadOffset + payloadLength ->
              [ok |-> FALSE, frameLength |-> payloadOffset + payloadLength]
         [] OTHER ->
              [ok |-> TRUE, frameLength |-> payloadOffset + payloadLength,
               fin |-> fin, opcode |-> opcode, maskFlag |-> maskFlag,
               payloadLength |-> payloadLength,
               maskOffset |-> maskOffset, payloadOffset |-> payloadOffset]

\* What stream_ws_handle_received_frame takes out of a parsed frame: the
\* payload, unmasked with the mask the frame carries.
Unmasked(data, f) ==
    LET payload == SubSeq(data, f.payloadOffset + 1, f.payloadOffset + f.payloadLength)
    IN IF f.maskFlag
       THEN ApplyMask(payload, SubSeq(data, f.maskOffset + 1, f.maskOffset + WS_MASK_SIZE))
       ELSE payload
=============================================================================
