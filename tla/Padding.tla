------------------------------ MODULE Padding ------------------------------
(***************************************************************************)
(* padding.py: a plaintext is framed by its length and filled up with      *)
(* zeros to a bucket, so that only the bucket can be seen from outside;    *)
(* and what that makes of the sizes that send_bytes accepts.  Bytes are    *)
(* numbers, as here the conversion is what matters.                        *)
(***************************************************************************)
EXTENDS Integers, Sequences

Byte == 0 .. 255

Buckets == {32, 64, 128, 256, 512, 1024, 2048, 4096, 8192}
LargestBucket == 8192
LengthPrefixSize == 4

\* to_bytes(LENGTH_PREFIX_SIZE, "big") and int.from_bytes.
BigEndian(n) ==
  <<n \div (256 * 256 * 256), (n \div (256 * 256)) % 256, (n \div 256) % 256, n % 256>>

FromBigEndian(b) == b[1] * (256 * 256 * 256) + b[2] * (256 * 256) + b[3] * 256 + b[4]

\* The smallest bucket that is large enough, or else a multiple of the largest.
BucketFor(framedSize) ==
  IF \E b \in Buckets : framedSize <= b
  THEN CHOOSE b \in Buckets :
         framedSize <= b /\ \A c \in Buckets : framedSize <= c => b <= c
  ELSE ((framedSize + LargestBucket - 1) \div LargestBucket) * LargestBucket

Framed(plaintext) == BigEndian(Len(plaintext)) \o plaintext

\* pad() and unpad() raise PaddingError for anything else.  (MAX_PLAINTEXT_SIZE
\* is what four bytes can say.)
PadAccepts(plaintext) == Len(plaintext) \div (256 * 256 * 256) < 256

UnpadAccepts(padded) ==
  /\ Len(padded) >= LengthPrefixSize
  /\ LengthPrefixSize + FromBigEndian(padded) <= Len(padded)

Pad(plaintext) ==
  LET framed == Framed(plaintext) IN
  framed \o [i \in 1 .. (BucketFor(Len(framed)) - Len(framed)) |-> 0]

Unpad(padded) ==
  SubSeq(padded, LengthPrefixSize + 1, LengthPrefixSize + FromBigEndian(padded))

-----------------------------------------------------------------------------
(* The frame of a message.                                                 *)

\* transport.py: MAX_FRAME_SIZE; gui.py: FILE_CHUNK_SIZE.
MaxFrameSize == 1024 * 1024
FileChunkSize == 256 * 1024

\* Flag and, with an announcement, the ratchet key; the counter; the padded
\* payload; the tag.
FrameSize(plaintext, rekeys) ==
  (IF rekeys THEN 33 ELSE 1) + 8 + Len(Pad(plaintext)) + 16

\* send_bytes raises FrameError for any other.
SendAccepts(plaintext, rekeys) == FrameSize(plaintext, rekeys) <= MaxFrameSize

\* The type, the transfer's id and the data of a file chunk.
ChunkMessage(type, id, data) == <<type>> \o id \o data
=============================================================================
