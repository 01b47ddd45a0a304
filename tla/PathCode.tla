------------------------------ MODULE PathCode ------------------------------
(***************************************************************************)
(* crates/tydence/src/manifest/path.rs: a path is any string of bytes, its *)
(* field in a manifest is text without blanks.  encode_path takes the      *)
(* bytes one character or one ill-formed sequence at a time; decode_path   *)
(* takes the field back.  Bytes are numbers, in the path and in the field. *)
(***************************************************************************)
EXTENDS UnicodeRanges

CONSTANTS
    Byte,       \* bytes a path may have
    Escaped,    \* the table of the code points to escape
    MaxBytes    \* bound on the length of a path

\* The table has the controls, the blank and the delete character in it.
ASSUME PathAssumption ==
    /\ Byte \subseteq 0..255
    /\ \A point \in (0..32) \cup {127} : Member(Escaped, point)

VARIABLES
    path,       \* the bytes git stores
    remaining,  \* those not yet encoded
    field,      \* what has been written of the field
    unread,     \* what of the field is not yet decoded
    decoded,
    coding      \* "taking", "encoding", "decoding", "decoded" or "refused"

pathVars == <<path, remaining, field, unread, decoded, coding>>

Percent == 37

-----------------------------------------------------------------------------
(***************************************************************************)
(* UTF-8 as str::from_utf8 accepts it: the length its first byte announces *)
(* and the bytes that may follow at each place (0: ill-formed on its own). *)
(***************************************************************************)
Width(b) ==
    CASE b < 128 -> 1
      [] b \in 194..223 -> 2
      [] b \in 224..239 -> 3
      [] b \in 240..244 -> 4
      [] OTHER -> 0

Continues(first, place) ==
    CASE place # 2 -> 128..191
      [] first = 224 -> 160..191
      [] first = 237 -> 128..159
      [] first = 240 -> 144..191
      [] first = 244 -> 128..143
      [] OTHER -> 128..191

\* How many bytes at the front belong together: a whole character, or what
\* from_utf8 reports as one ill-formed sequence, also where the bytes end.
Chunk(bytes) ==
    LET first == Head(bytes)
    IN  CHOOSE n \in 1..Len(bytes) :
            /\ \A k \in 2..n :
                   k <= Width(first) /\ bytes[k] \in Continues(first, k)
            /\ \/ n >= Width(first)
               \/ n = Len(bytes)
               \/ bytes[n + 1] \notin Continues(first, n + 1)

IsCharacter(bytes) == Width(Head(bytes)) = Len(bytes)

CodePoint(character) ==
    LET low == [k \in DOMAIN character |-> character[k] % 64]
        b == character[1]
    IN  CASE Len(character) = 1 -> b
          [] Len(character) = 2 -> (b % 32) * 64 + low[2]
          [] Len(character) = 3 -> ((b % 16) * 64 + low[2]) * 64 + low[3]
          [] Len(character) = 4 ->
                (((b % 8) * 64 + low[2]) * 64 + low[3]) * 64 + low[4]

\* Broken on purpose: the escape itself is taken for visible text.
KeepsPercent(chunk) ==
    /\ IsCharacter(chunk)
    /\ ~Member(Escaped, CodePoint(chunk))

KeepsRaw(chunk) ==
    /\ IsCharacter(chunk)
    /\ chunk # <<Percent>>
    /\ ~Member(Escaped, CodePoint(chunk))

Digit(value) == IF value < 10 THEN 48 + value ELSE 55 + value

DigitValue(digit) ==
    CASE digit \in 48..57 -> digit - 48
      [] digit \in 65..70 -> digit - 55
      [] OTHER -> 16

\* Every byte as three characters.
Escape(bytes) ==
    [k \in 1..(3 * Len(bytes)) |->
        LET b == bytes[(k + 2) \div 3]
        IN  CASE k % 3 = 1 -> Percent
              [] k % 3 = 2 -> Digit(b \div 16)
              [] k % 3 = 0 -> Digit(b % 16)]

-----------------------------------------------------------------------------
PathStart ==
    /\ path = <<>> /\ remaining = <<>> /\ field = <<>>
    /\ unread = <<>> /\ decoded = <<>>
    /\ coding = "taking"

\* Any path git may store.
TakeByte(b) ==
    /\ coding = "taking"
    /\ Len(path) < MaxBytes
    /\ path' = Append(path, b)
    /\ remaining' = path'
    /\ UNCHANGED <<field, unread, decoded, coding>>

BeginEncoding ==
    /\ coding = "taking"
    /\ coding' = "encoding"
    /\ UNCHANGED <<path, remaining, field, unread, decoded>>

EncodeChunk ==
    /\ coding = "encoding"
    /\ remaining # <<>>
    /\ LET length == Chunk(remaining)
           chunk == SubSeq(remaining, 1, length)
       IN  /\ field' = field \o
                  (IF KeepsRaw(chunk) THEN chunk ELSE Escape(chunk))
           /\ remaining' = SubSeq(remaining, length + 1, Len(remaining))
    /\ UNCHANGED <<path, unread, decoded, coding>>

BeginDecoding ==
    /\ coding = "encoding"
    /\ remaining = <<>>
    /\ unread' = field
    /\ coding' = "decoding"
    /\ UNCHANGED <<path, remaining, field, decoded>>

DecodeRaw ==
    /\ coding = "decoding"
    /\ unread # <<>> /\ Head(unread) # Percent
    /\ decoded' = Append(decoded, Head(unread))
    /\ unread' = Tail(unread)
    /\ UNCHANGED <<path, remaining, field, coding>>

\* The value of the escape at the front; 16 and more for what is none.
EscapedByte ==
    IF Len(unread) < 3 THEN 256
    ELSE LET high == DigitValue(unread[2])
             low == DigitValue(unread[3])
         IN  IF high > 15 \/ low > 15 THEN 256 ELSE high * 16 + low

DecodeEscape ==
    /\ coding = "decoding"
    /\ unread # <<>> /\ Head(unread) = Percent
    /\ EscapedByte < 256
    /\ decoded' = Append(decoded, EscapedByte)
    /\ unread' = SubSeq(unread, 4, Len(unread))
    /\ UNCHANGED <<path, remaining, field, coding>>

RefuseField ==
    /\ coding = "decoding"
    /\ \/ unread # <<>> /\ Head(unread) = Percent /\ EscapedByte = 256
       \/ field = <<>>
    /\ coding' = "refused"
    /\ UNCHANGED <<path, remaining, field, unread, decoded>>

FinishField ==
    /\ coding = "decoding"
    /\ unread = <<>> /\ decoded # <<>>
    /\ coding' = "decoded"
    /\ UNCHANGED <<path, remaining, field, unread, decoded>>

PathNext ==
    \/ \E b \in Byte : TakeByte(b)
    \/ BeginEncoding \/ EncodeChunk \/ BeginDecoding
    \/ DecodeRaw \/ DecodeEscape \/ RefuseField \/ FinishField

PathSpec == PathStart /\ [][PathNext]_pathVars

-----------------------------------------------------------------------------
(***************************************************************************)
(* A path survives its field, as stamping.md 4.3 wants it: what the parser *)
(* decodes is the path git stores, byte for byte and whatever the bytes    *)
(* are, only the empty path has no field, and no field has a character in  *)
(* it that would end the field or the line.                                *)
(***************************************************************************)
PathsSurvive ==
    /\ coding = "decoded" => decoded = path
    /\ coding = "refused" => path = <<>>
    /\ \A k \in DOMAIN field : field[k] > 32 /\ field[k] # 127
=============================================================================
