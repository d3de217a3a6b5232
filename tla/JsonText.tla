------------------------------- MODULE JsonText -------------------------------
(***************************************************************************)
(* The string routines every reply goes through, byte by byte because what *)
(* they promise is about bytes:                                            *)
(*   "group"   the name of a group: group_create and group_update put it   *)
(*             in the record with strncpy, and grp_to_json shows it with   *)
(*             JsonWriter, json_buf.h: a fmt() that opens, str(), a raw(); *)
(*   "device"  json_escape, devlist_page.h: one field of a device.list row;*)
(*   "log"     build_body_json, log_ring.cpp: the message of a log line,   *)
(*             its capacity counted from the quote that opens it.          *)
(* A run takes one routine, one source and one capacity and ends when the  *)
(* routine returns.  A source byte past the end reads as NUL.              *)
(***************************************************************************)
EXTENDS Integers, SequencesExt

CONSTANTS Bytes,      \* the bytes a source is made of, 1..255
          MaxLen,     \* longest source
          Caps,       \* sizes of the destination
          NameSizes   \* sizes of GrpRecord.name

ASSUME TextAssumption ==
  /\ Bytes \subseteq 1..255 /\ MaxLen \in Nat
  /\ Caps \subseteq Nat \ {0} /\ NameSizes \subseteq Nat \ {0}

VARIABLES job,        \* the routine under way
          name,       \* the string the caller gave
          width,      \* sizeof(GrpRecord.name), 0 where no field is filled
          src,        \* the source string of the routine
          size,       \* size of its destination
          read,       \* source bytes consumed
          out,        \* what has been written
          ok,         \* JsonWriter.ok_
          stage       \* "store", "open", "run", "close" or "done"

given    == <<job, name, width>>
textVars == <<given, src, size, read, out, ok, stage>>

Quote     == 34
Backslash == 92
LowerU    == 117
Replaced  == 65533                     \* U+FFFD

Sources == BoundedSeq(Bytes, MaxLen)

(***************************************************************************)
(* utf8_seq_len                                                            *)
(***************************************************************************)
At(s, i) == IF i < Len(s) THEN s[i + 1] ELSE 0

Continuation == 128..191

\* Length of the sequence a lead byte opens, 0 for a byte that opens none.
SeqNeed(c) ==
  CASE c < 128        -> 1
    [] c \in 194..223 -> 2
    [] c \in 224..239 -> 3
    [] c \in 240..244 -> 4
    [] OTHER          -> 0

\* The bytes that may follow lead byte c.
SecondBytes(c) ==
  CASE c = 224 -> 160..191
    [] c = 237 -> 128..159
    [] c = 240 -> 144..191
    [] c = 244 -> 128..143
    [] OTHER   -> Continuation

SeqLen(s, i, avail) ==
  LET n == SeqNeed(At(s, i))
  IN  IF /\ n <= avail
         /\ n > 1 => At(s, i + 1) \in SecondBytes(At(s, i))
         /\ \A k \in 2..n - 1 : At(s, i + k) \in Continuation
      THEN n ELSE 0

(***************************************************************************)
(* Escapes                                                                 *)
(***************************************************************************)
Hex(d) == IF d < 10 THEN 48 + d ELSE 87 + d

UnicodeEscape(cp) ==
  <<Backslash, LowerU, Hex(cp \div 4096), Hex((cp \div 256) % 16),
    Hex((cp \div 16) % 16), Hex(cp % 16)>>

\* JsonWriter::str: the bytes that stand for a byte below 0x80.
StrEscape(c) ==
  CASE c \in {Quote, Backslash} -> <<Backslash, c>>
    [] c = 10 -> <<Backslash, 110>>
    [] c = 13 -> <<Backslash, 114>>
    [] c = 9  -> <<Backslash, 116>>
    [] c < 32 /\ c \notin {9, 10, 13} -> UnicodeEscape(c)
    [] OTHER  -> <<c>>

\* Mutant: a piece is one byte.
OneByte(s, i) == 1

\* json_escape: a lead byte and the continuation bytes that follow it.
PieceLen(s, i) ==
  IF At(s, i) \in {Quote, Backslash} \cup 0..31 THEN 1
  ELSE CHOOSE n \in 1..Len(s) - i :
         /\ \A k \in 1..n - 1 : At(s, i + k) \in Continuation
         /\ At(s, i + n) \notin Continuation

Piece(s, i) ==
  LET c == At(s, i)
  IN  CASE c \in {Quote, Backslash} -> <<Backslash, c>>
        [] c < 32                   -> UnicodeEscape(c)
        [] OTHER                    -> SubSeq(s, i + 1, i + PieceLen(s, i))

(***************************************************************************)
(* json_escape: stop before what does not fit                              *)
(***************************************************************************)

\* Mutant: no room is kept for the NUL.
FitsExactly(n) == Len(out) + n <= size

HasRoom(n) == Len(out) + n < size

\* One piece of json_escape.
EscapeOne ==
  /\ job = "device" /\ stage = "run" /\ read < Len(src)
  /\ HasRoom(Len(Piece(src, read)))
  /\ out' = out \o Piece(src, read)
  /\ read' = read + PieceLen(src, read)
  /\ UNCHANGED <<given, src, size, ok, stage>>

EscapeEnd ==
  /\ job = "device" /\ stage = "run"
  /\ read < Len(src) => ~HasRoom(Len(Piece(src, read)))
  /\ stage' = "done"
  /\ UNCHANGED <<given, src, size, read, out, ok>>

(***************************************************************************)
(* JsonWriter: append until the buffer is full, then fail for good         *)
(***************************************************************************)

\* Mutant: what did not fit is forgotten.
StaysOk(n) == TRUE

\* ok_ after n bytes were put.
Latched(n) == Len(out) + n <= size

\* put() for each byte of s, and ok_ with it.
PutAll(s) ==
  LET room == size - Len(out)
  IN  /\ out' = out \o SubSeq(s, 1, IF Len(s) < room THEN Len(s) ELSE room)
      /\ ok' = Latched(Len(s))

\* Mutant: strncpy is given the whole size of the field, no byte for the NUL.
NoNul(s, w) == SubSeq(s, 1, IF Len(s) <= w THEN Len(s) ELSE w)

\* What strncpy leaves in a zeroed field of w bytes, up to its NUL.
Kept(s, w) == SubSeq(s, 1, IF Len(s) < w THEN Len(s) ELSE w - 1)

\* group_create and group_update: the name is copied byte by byte.
StoreName ==
  /\ stage = "store"
  /\ src' = Kept(name, width)
  /\ stage' = "open"
  /\ UNCHANGED <<given, size, read, out, ok>>

\* The opening fmt(): vsnprintf needs room for its NUL.
Open ==
  /\ stage = "open"
  /\ IF Len(out) + 1 < size THEN out' = out \o <<Quote>> /\ UNCHANGED ok
     ELSE ok' = FALSE /\ UNCHANGED out
  /\ stage' = "run"
  /\ UNCHANGED <<given, src, size, read>>

\* One turn of str(), which is given the size of the field as its bound.
StrOne ==
  LET c == At(src, read)
      n == SeqLen(src, read, width - read)
  IN  /\ job = "group" /\ stage = "run" /\ ok /\ read < Len(src)
      /\ PutAll(CASE c < 128           -> StrEscape(c)
                  [] c >= 128 /\ n > 0 -> SubSeq(src, read + 1, read + n)
                  [] OTHER             -> UnicodeEscape(Replaced))
      /\ read' = IF n > 0 THEN read + n ELSE read + 1
      /\ UNCHANGED <<given, src, size, stage>>

StrEnd ==
  /\ job = "group" /\ stage = "run"
  /\ ~ok \/ read = Len(src)
  /\ stage' = "close"
  /\ UNCHANGED <<given, src, size, read, out, ok>>

\* The closing raw().
Close ==
  /\ stage = "close"
  /\ IF ok THEN PutAll(<<Quote>>) ELSE UNCHANGED <<out, ok>>
  /\ stage' = "done"
  /\ UNCHANGED <<given, src, size, read>>

\* JsonWriter::finish, and the length build_body_json returns.
Finish == IF ok THEN out ELSE <<>>

(***************************************************************************)
(* build_body_json: six bytes of room before each byte, or nothing         *)
(***************************************************************************)

\* emit_escaped: a byte as it is, or its escape.
BodyEscape(c) ==
  CASE c \in {Quote, Backslash} -> <<Backslash, c>>
    [] c < 32                   -> UnicodeEscape(c)
    [] OTHER                    -> <<c>>

BodyFits == Len(out) + 6 < size

BodyOne ==
  /\ job = "log" /\ stage = "run" /\ ok /\ read < Len(src)
  /\ IF BodyFits THEN out' = out \o BodyEscape(At(src, read)) /\ UNCHANGED ok
     ELSE ok' = FALSE /\ UNCHANGED out
  /\ read' = read + 1
  /\ UNCHANGED <<given, src, size, stage>>

\* The closing quote, with room for the brace and the NUL behind it.
BodyEnd ==
  /\ job = "log" /\ stage = "run"
  /\ ~ok \/ read = Len(src)
  /\ IF ok /\ Len(out) + 3 < size THEN out' = out \o <<Quote>> /\ UNCHANGED ok
     ELSE ok' = FALSE /\ UNCHANGED out
  /\ stage' = "done"
  /\ UNCHANGED <<given, src, size, read>>

TextInit ==
  /\ job \in {"group", "device", "log"}
  /\ name \in Sources /\ src = name
  /\ width \in IF job = "group" THEN NameSizes ELSE {0}
  /\ size \in Caps
  /\ job = "log" => size > 1
  /\ read = 0
  /\ out = IF job = "log" THEN <<Quote>> ELSE <<>>
  /\ ok = TRUE
  /\ stage = IF job = "group" THEN "store" ELSE "run"

TextNext == EscapeOne \/ EscapeEnd
          \/ StoreName \/ Open \/ StrOne \/ StrEnd \/ Close
          \/ BodyOne \/ BodyEnd

TextSpec == TextInit /\ [][TextNext]_textVars

(***************************************************************************)
(* What the bytes mean, from the definition of UTF-8 and of JSON strings   *)
(***************************************************************************)
CodePoint(b) ==
  CASE Len(b) = 1 -> b[1]
    [] Len(b) = 2 -> (b[1] - 192) * 64 + (b[2] - 128)
    [] Len(b) = 3 -> ((b[1] - 224) * 64 + (b[2] - 128)) * 64 + (b[3] - 128)
    [] Len(b) = 4 -> (((b[1] - 240) * 64 + (b[2] - 128)) * 64 + (b[3] - 128)) * 64
                       + (b[4] - 128)

Shortest(cp) ==
  IF cp < 128 THEN 1 ELSE IF cp < 2048 THEN 2 ELSE IF cp < 65536 THEN 3 ELSE 4

\* No surrogate and not past U+10FFFF.
IsScalar(cp) == cp <= 1114111 /\ cp \notin 55296..57343

\* A lead byte and continuation bytes, the shortest form of what they encode.
IsChar(b) ==
  /\ \A k \in 2..Len(b) : b[k] \in Continuation
  /\ IsScalar(CodePoint(b)) /\ Shortest(CodePoint(b)) = Len(b)

\* The code points of s; a byte that belongs to no character counts as U+FFFD.
TextOf(s) ==
  LET text[i \in 1..Len(s) + 1] ==
        IF i > Len(s) THEN <<>>
        ELSE LET ends == {j \in i..i + 3 : j <= Len(s) /\ IsChar(SubSeq(s, i, j))}
             IN  IF ends = {} THEN <<Replaced>> \o text[i + 1]
                 ELSE LET j == CHOOSE j \in ends : TRUE
                      IN  <<CodePoint(SubSeq(s, i, j))>> \o text[j + 1]
  IN  text[1]

\* Every byte of s belongs to a character.
IsText(s) ==
  \A k \in 1..Len(s) : \E i \in k - 3..k : \E j \in k..i + 3 :
    1 <= i /\ j <= Len(s) /\ IsChar(SubSeq(s, i, j))

Digit(c) == IF c \in 48..57 THEN c - 48 ELSE c - 87

\* The string a JSON parser reads between two quotes, <<-1>> if it refuses it.
Parsed(s) ==
  LET rest[i \in 1..Len(s) + 1] ==
        CASE i > Len(s) -> <<>>
          [] i <= Len(s) /\ s[i] \in {Quote} \cup 0..31 -> <<-1>>
          [] i + 5 <= Len(s) /\ s[i] = Backslash /\ s[i + 1] = LowerU ->
               <<Digit(s[i + 2]) * 4096 + Digit(s[i + 3]) * 256
                  + Digit(s[i + 4]) * 16 + Digit(s[i + 5])>> \o rest[i + 6]
          [] i + 1 <= Len(s) /\ s[i] = Backslash /\ s[i + 1] # LowerU ->
               <<CASE s[i + 1] = 110 -> 10 [] s[i + 1] = 114 -> 13
                   [] s[i + 1] = 116 -> 9  [] OTHER -> s[i + 1]>> \o rest[i + 2]
          [] i <= Len(s) /\ s[i] \notin {Backslash, Quote} \cup 0..31 ->
               <<s[i]>> \o rest[i + 1]
          [] OTHER -> <<-1>>
  IN  rest[1]

(***************************************************************************)
(* Properties                                                              *)
(***************************************************************************)

\* Nothing is written past the destination; the two routines that end their
\* output with a NUL keep room for it.
TextTypeOK ==
  /\ job \in {"group", "device", "log"}
  /\ name \in Seq(Bytes) /\ src \in Seq(Bytes)
  /\ width \in NameSizes \cup {0}
  /\ size \in Caps
  /\ read \in 0..Len(src)
  /\ Len(out) < size + (IF job = "group" THEN 1 ELSE 0)
  /\ job = "log" /\ stage = "done" /\ ok => Len(out) + 1 < size
  /\ ok \in BOOLEAN
  /\ stage \in {"store", "open", "run", "close", "done"}

\* The row of a group whose name was text shows that name, or, where strncpy cut
\* it inside a character, the whole characters before the cut and one U+FFFD for
\* each byte the cut left of the last (json_buf.h, "heals bad bytes already
\* persisted in NVS at serialize time"): never a byte of another character, and
\* never fewer characters than the field holds.
CutNameShown ==
  job = "group" /\ stage = "done" /\ IsText(name) /\ Finish # <<>> =>
    LET shown == Parsed(TextOf(SubSeq(out, 2, Len(out) - 1)))
    IN  IF Len(name) < width THEN shown = TextOf(name)
        ELSE \E k \in 0..3 : LET whole == SubSeq(name, 1, width - 1 - k)
                             IN  /\ k < width /\ IsText(whole)
                                 /\ shown = TextOf(whole) \o [i \in 1..k |-> Replaced]

\* A device name that is text is shown as text: what the browser reads between
\* the quotes is the name or, where the row field is too small for it, a start
\* of the name that ends with a whole character (devlist_page.h, "never inside
\* an escape or a UTF-8 sequence").
NameShownWhole ==
  job = "device" /\ stage = "done" /\ IsText(src) =>
    /\ IsText(out)
    /\ IsPrefix(Parsed(TextOf(out)), TextOf(src))
    /\ read = Len(src) => Parsed(TextOf(out)) = TextOf(src)

\* What a row or a body says between its quotes is the source.
SaysSource ==
  /\ IsText(out)
  /\ out[1] = Quote /\ out[Len(out)] = Quote
  /\ Parsed(TextOf(SubSeq(out, 2, Len(out) - 1))) = TextOf(src)

\* A group row is sent whole or not at all: what finish() returns is valid UTF-8
\* and, between its quotes, valid JSON for the stored name with every bad byte
\* replaced, and it is empty only when the row does not fit (json_buf.h, "callers
\* fail closed", "anything they would reject, we must not emit").  So is the body
\* of a log line that is text; it is dropped when fewer than six bytes are left
\* before one of its characters.
RowOrNothing ==
  stage = "done" =>
    /\ job = "group" => IF Finish = <<>> THEN Len(out) = size \/ size <= 1 ELSE SaysSource
    /\ job = "log" /\ IsText(src) =>
         IF Finish = <<>> THEN Len(out) + 6 >= size ELSE SaysSource
==============================================================================
