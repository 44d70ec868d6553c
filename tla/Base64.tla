------------------------------- MODULE Base64 -------------------------------
(***************************************************************************)
(* base64.cpp: the loop of base64_encode that turns three bytes at a time  *)
(* into four characters, and the loop of base64_decode that turns them     *)
(* back.  Text may be in either of two alphabets, broken into lines, and   *)
(* may come without its trailing characters.  A byte and a character are   *)
(* the numbers C++ computes with; the masks and shifts of the source are   *)
(* its remainders and quotients.                                           *)
(***************************************************************************)
EXTENDS Integers, Sequences

CONSTANTS
    Inputs,         \* what may be encoded
    LineLengths     \* 0 for text without line breaks; 64 for pem, 76 for mime

Byte == 0..255

ASSUME Base64Assumption == Inputs \subseteq Seq(Byte) /\ LineLengths \subseteq Nat

VARIABLES
    input,
    url,        \* which alphabet
    line,       \* where the text is broken
    phase,      \* "encode", "send", "decode", "decoded"; "thrown": an exception
    pos,
    text,
    output,
    cut         \* (history) the text lost more than trailing characters

base64Vars == <<input, url, line, phase, pos, text, output, cut>>

Base64Init ==
    /\ input \in Inputs /\ url \in BOOLEAN /\ line \in LineLengths
    /\ line # 0 => ~url
    /\ phase = "encode" /\ pos = 0 /\ text = <<>> /\ output = <<>>
    /\ cut = FALSE

-----------------------------------------------------------------------------
(* base64_encode                                                            *)

base64_chars(v) ==
    IF v < 26 THEN 65 + v
    ELSE IF v < 52 THEN 97 + (v - 26)
    ELSE IF v < 62 THEN 48 + (v - 52)
    ELSE IF v = 62 THEN (IF url THEN 45 ELSE 43)
    ELSE IF url THEN 95 ELSE 47

trailing_char == IF url THEN 46 ELSE 61

\* The four characters for the up to three bytes after position p.
encodedChunk(p) ==
    LET b(i) == input[p + i]
        n    == Len(input) - p
    IN  << base64_chars(b(1) \div 4),
           base64_chars((b(1) % 4) * 16 + IF n = 1 THEN 0 ELSE b(2) \div 16),
           IF n = 1
             THEN trailing_char
             ELSE base64_chars((b(2) % 16) * 4 + IF n = 2 THEN 0 ELSE b(3) \div 64),
           IF n <= 2 THEN trailing_char ELSE base64_chars(b(3) % 64) >>

EncodeChunk ==
    /\ phase = "encode" /\ pos < Len(input)
    /\ text' = text \o encodedChunk(pos)
    /\ pos' = pos + 3
    /\ UNCHANGED <<input, url, line, phase, output, cut>>

\* A break after every `line` characters but the last.
insert_linebreaks(str, distance) ==
    IF distance = 0 \/ str = <<>>
      THEN str
      ELSE [i \in 1..(Len(str) + (Len(str) - 1) \div distance) |->
               IF i % (distance + 1) = 0 THEN 10 ELSE str[i - i \div (distance + 1)]]

EncodeEnds ==
    /\ phase = "encode" /\ pos >= Len(input)
    /\ text' = insert_linebreaks(text, line)
    /\ phase' = "send"
    /\ pos' = 0
    /\ UNCHANGED <<input, url, line, output, cut>>

-----------------------------------------------------------------------------
(* base64_decode                                                            *)

isTrailing(chr) == chr \in {46, 61}

\* What std::remove keeps of a text, after each character.
unbroken(str) ==
    LET kept[n \in 0..Len(str)] ==
            IF n = 0 THEN <<>>
            ELSE IF str[n] = 10 THEN kept[n - 1]
            ELSE Append(kept[n - 1], str[n])
    IN  kept

remove_linebreaks(str) == IF line = 0 THEN str ELSE unbroken(str)[Len(str)]

\* What arrives: the text, with or without its trailing characters (which RFC
\* 2045 lets a client leave off), or cut off somewhere.
DecodeBegins(n) ==
    LET str == remove_linebreaks(text)
    IN  /\ phase = "send"
        /\ n <= Len(str)
        /\ text' = SubSeq(str, 1, n)
        /\ cut' = \E i \in (n + 1)..Len(str) : ~isTrailing(str[i])
        /\ phase' = "decode"
        /\ UNCHANGED <<input, url, line, pos, output>>

isBase64(chr) == chr \in 65..90 \cup 97..122 \cup 48..57 \cup {43, 45, 47, 95}

\* Faulty variant of pos_of_char: only the one alphabet is known.
pos_of_charStandard(chr) ==
    IF chr \in 65..90 THEN chr - 65
    ELSE IF chr \in 97..122 THEN chr - 97 + 26
    ELSE IF chr \in 48..57 THEN chr - 48 + 52
    ELSE IF chr = 43 THEN 62
    ELSE 63

pos_of_char(chr) ==
    IF chr \in 65..90 THEN chr - 65
    ELSE IF chr \in 97..122 THEN chr - 97 + 26
    ELSE IF chr \in 48..57 THEN chr - 48 + 52
    ELSE IF chr \in {43, 45} THEN 62
    ELSE 63

hasSecond(p) == p + 2 < Len(text) /\ ~isTrailing(text[p + 3])
hasThird(p) == hasSecond(p) /\ p + 3 < Len(text) /\ ~isTrailing(text[p + 4])

\* at() and pos_of_char throw when a chunk has one character, or what is no
\* character of base64.
canDecode(p) ==
    /\ p + 1 < Len(text)
    /\ isBase64(text[p + 1]) /\ isBase64(text[p + 2])
    /\ hasSecond(p) => isBase64(text[p + 3])
    /\ hasThird(p) => isBase64(text[p + 4])

\* One to three bytes from the chunk after position p.
decodedChunk(p) ==
    LET c(i)  == pos_of_char(text[p + i])
        byte1 == c(1) * 4 + (c(2) \div 16)
        byte2 == (c(2) % 16) * 16 + (c(3) \div 4)
        byte3 == (c(3) % 4) * 64 + c(4)
    IN  IF hasThird(p) THEN <<byte1, byte2, byte3>>
        ELSE IF hasSecond(p) THEN <<byte1, byte2>>
        ELSE <<byte1>>

DecodeChunk ==
    /\ phase = "decode" /\ pos < Len(text)
    /\ canDecode(pos)
    /\ output' = output \o decodedChunk(pos)
    /\ pos' = pos + 4
    /\ UNCHANGED <<input, url, line, phase, text, cut>>

DecodeThrows ==
    /\ phase = "decode" /\ pos < Len(text)
    /\ ~canDecode(pos)
    /\ phase' = "thrown"
    /\ UNCHANGED <<input, url, line, pos, text, output, cut>>

DecodeEnds ==
    /\ phase = "decode" /\ pos >= Len(text)
    /\ phase' = "decoded"
    /\ UNCHANGED <<input, url, line, pos, text, output, cut>>

Base64Next ==
    \/ EncodeChunk \/ EncodeEnds
    \/ \E n \in 0..Len(text) : DecodeBegins(n)
    \/ DecodeChunk \/ DecodeThrows \/ DecodeEnds

Base64Spec == Base64Init /\ [][Base64Next]_base64Vars

-----------------------------------------------------------------------------

\* Whatever is encoded, in either alphabet, broken into lines or not, padded or
\* not, is decoded without an exception and to the byte.  What has been decoded
\* is always a beginning of what was encoded, even of a text that was cut off.
RoundTrip ==
    /\ Len(output) <= Len(input)
    /\ output = SubSeq(input, 1, Len(output))
    /\ phase = "thrown" => cut
    /\ phase = "decoded" /\ ~cut => output = input

=============================================================================
