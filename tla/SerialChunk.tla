---------------------------- MODULE SerialChunk ----------------------------
(***************************************************************************)
(* The arithmetic of serialSend() in src/modules/bt/bt_module.c: how the   *)
(* negotiated ATT MTU becomes the usable MTU of a connection, how many     *)
(* bytes one notification carries, and how long their base64 text is.      *)
(***************************************************************************)
EXTENDS Naturals

(* Bytes of the ATT MTU that a notification spends on its header. *)
AttHeader == 3

(* Mutant of FixedMtu: the MTU is not brought to whole base64 groups. *)
UnalignedMtu(attMtu) == attMtu - AttHeader

(***************************************************************************)
(* exchange_func(): the usable MTU is counted down to the next number that *)
(* is 1 modulo 4: whole base64 quadruples and one byte for the terminator. *)
(***************************************************************************)
FixedMtu(attMtu) ==
  LET mtu == attMtu - AttHeader IN mtu - ((mtu + 3) % 4)

(***************************************************************************)
(* BASE64_DECODE_LEN(mtu - 1): the bytes whose base64 text fills an MTU.   *)
(* For mtu = 0 the C expression is (-1 * 3) / 4, which truncates to 0.     *)
(***************************************************************************)
DecodedChunkSize(mtu) == IF mtu = 0 THEN 0 ELSE ((mtu - 1) * 3) \div 4

(* BASE64_ENCODE_LEN(len): four characters for every three bytes begun. *)
EncodedLen(len) == 4 * ((len + 2) \div 3)

(* What base64_encode() writes for a chunk: the text and its terminator. *)
TextLen(len) == IF len = 0 THEN 0 ELSE EncodedLen(len) + 1

(***************************************************************************)
(* base64_encode() accepts the chunk: its text and the terminator fit into *)
(* the destination.  Nothing is checked for an empty chunk.                *)
(***************************************************************************)
EncodeFits(len, mtu) == len = 0 \/ EncodedLen(len) + 1 <= mtu

(* transactionLength: what is left of the message, at most `room` bytes. *)
ChunkLen(left, room) == IF left > room THEN room ELSE left

=============================================================================
