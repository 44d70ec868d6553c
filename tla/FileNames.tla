----------------------------- MODULE FileNames -----------------------------
(***************************************************************************)
(* The way of a file's name: the client encodes it in base64 for a header  *)
(* of the upload (Base64.tla); the service decodes it, makes a URL of it,  *)
(* and shows a link to that URL on its page; the browser follows the link; *)
(* the service decodes the path it is asked for and looks its row up.      *)
(***************************************************************************)
EXTENDS Base64, FiniteSetsExt

CONSTANTS
    download_prefix_,   \* as configured
    NoLink              \* a page whose link is broken

ASSUME NamesAssumption == download_prefix_ \in Seq(Byte)

VARIABLES
    at,         \* "upload", "recorded", "shown", "urlDecode", "asked", "thrown"
    url_,       \* the row's URL
    link,       \* the link on the page
    path,       \* what the browser asks for
    index,      \* urlDecode: how far it is
    ret         \* urlDecode: its result

namesVars == <<base64Vars, at, url_, link, path, index, ret>>

\* Bytes of a character of UTF-8 that begins with b.
Width(b) ==
    CASE b \in 194..223 -> 2
      [] b \in 224..239 -> 3
      [] b \in 240..244 -> 4
      [] OTHER          -> 1

isText(name) == \A i \in 1..Len(name) :
    /\ name[i] \notin {192, 193} \cup 245..255
    /\ i + Width(name[i]) <= Len(name) + 1
    /\ name[i] \in 128..191 <=> \E k \in 1..3 : k < i /\ Width(name[i - k]) > k

\* A C string in a directory: neither 0 nor a slash; and text, or the browser
\* would not know it.
isFileName(name) ==
    /\ name \notin {<<>>, <<46>>, <<46, 46>>} /\ isText(name)
    /\ \A i \in 1..Len(name) : name[i] \notin {0, 47}

NamesInit ==
    /\ Base64Init
    /\ at = "upload"
    /\ url_ = <<>> /\ link = <<>> /\ path = <<>> /\ index = 0 /\ ret = <<>>

Base64Step ==
    /\ at = "upload"
    /\ Base64Next
    /\ UNCHANGED <<at, url_, link, path, index, ret>>

\* newStorageInfo: the prefix and the name, which comes in one line.
Record ==
    /\ at = "upload" /\ line = 0
    /\ phase = "decoded" /\ isFileName(output)
    /\ url_' = download_prefix_ \o output
    /\ at' = "recorded"
    /\ UNCHANGED <<base64Vars, link, path, index, ret>>

\* Characters of which regex_replace, whose format the list is, HTML, JavaScript
\* or the parser of URLs make something else: tab, line ends, " $ & ' and \.
isMarkup(chr) == chr \in {9, 10, 13, 34, 36, 38, 39, 92}

\* listShow and generateModernFileList.  What becomes of markup is left open.
Show ==
    /\ at = "recorded"
    /\ \/ link' = url_
       \/ link' = NoLink /\ \E i \in 1..Len(url_) : isMarkup(url_[i])
    /\ at' = "shown"
    /\ UNCHANGED <<base64Vars, url_, path, index, ret>>

-----------------------------------------------------------------------------
(* The browser, which follows the link                                      *)

toHex(number) == IF number > 9 THEN number + 55 ELSE number + 48

\* Letters, digits and what else a path may have; a per cent sign (37) is taken
\* for the beginning of an escape.
isPlain(chr) ==
    chr \in 97..122 \cup 65..90 \cup 48..57 \cup {33, 37, 45, 46, 47, 95, 126}

Escaped(chr) ==
    IF isPlain(chr) THEN <<chr>> ELSE << 37, toHex(chr \div 16), toHex(chr % 16) >>

\* What is asked for after each character of a path.
escaped(p) ==
    LET upTo[n \in 0..Len(p)] ==
            IF n = 0 THEN <<>> ELSE upTo[n - 1] \o Escaped(p[n])
    IN  upTo

\* The path ends at a question mark or a hash sign (63, 35).
PathOf(l) ==
    LET ends == {i \in 1..Len(l) : l[i] \in {35, 63}}
    IN  IF ends = {} THEN l ELSE SubSeq(l, 1, Min(ends) - 1)

Follow ==
    /\ at = "shown" /\ link # NoLink
    /\ path' = escaped(PathOf(link))[Len(PathOf(link))]
    /\ index' = 0 /\ ret' = <<>>
    /\ at' = "urlDecode"
    /\ UNCHANGED <<base64Vars, url_, link>>

-----------------------------------------------------------------------------
(* genHandler and downLoad: urlDecode, which reads what toHex writes up to  *)
(* fifteen                                                                  *)

isHex(chr) == chr \in 48..57 \cup 97..101 \cup 65..69

fromHex(chr) ==
    CASE chr \in 48..57  -> chr - 48
      [] chr \in 97..101 -> chr - 97 + 10
      [] OTHER           -> chr - 65 + 10

\* Two digits that fromHex knows.
hasEscape(i) == i + 2 < Len(path) /\ isHex(path[i + 2]) /\ isHex(path[i + 3])

\* Faulty variant of unescaped: the digits are taken in the wrong order.
unescapedSwapped(i) == fromHex(path[i + 2]) + fromHex(path[i + 3]) * 16

unescaped(i) == fromHex(path[i + 2]) * 16 + fromHex(path[i + 3])

UrlDecodeStep ==
    /\ at = "urlDecode" /\ index < Len(path)
    /\ IF path[index + 1] = 37
         THEN /\ hasEscape(index)
              /\ ret' = Append(ret, unescaped(index))
              /\ index' = index + 3
         ELSE /\ ret' = Append(ret, path[index + 1])
              /\ index' = index + 1
    /\ UNCHANGED <<base64Vars, at, url_, link, path>>

\* Nobody catches what urlDecode throws.
UrlDecodeThrows ==
    /\ at = "urlDecode" /\ index < Len(path)
    /\ path[index + 1] = 37 /\ ~hasEscape(index)
    /\ at' = "thrown"
    /\ UNCHANGED <<base64Vars, url_, link, path, index, ret>>

UrlDecodeEnds ==
    /\ at = "urlDecode" /\ index = Len(path)
    /\ at' = "asked"
    /\ UNCHANGED <<base64Vars, url_, link, path, index, ret>>

NamesNext ==
    \/ Base64Step \/ Record \/ Show \/ Follow
    \/ UrlDecodeStep \/ UrlDecodeThrows \/ UrlDecodeEnds

NamesSpec == NamesInit /\ [][NamesNext]_namesVars

-----------------------------------------------------------------------------

\* A byte that the page, the browser and fromHex leave as it is: no markup, none
\* of # % ?, and none whose escape would have the digit F.
isHarmless(chr) ==
    /\ ~isMarkup(chr) /\ chr \notin {35, 37, 63}
    /\ isPlain(chr) \/ (chr \div 16 # 15 /\ chr % 16 # 15)

\* The link of a file leads back to its row: whatever harmless bytes its name is
\* made of, the service is asked for the URL it recorded; and nothing but a
\* name that is not harmless makes urlDecode throw.
LinkLeadsBack ==
    (\A i \in 1..Len(url_) : isHarmless(url_[i])) =>
        /\ at # "thrown"
        /\ at = "asked" => ret = url_

=============================================================================
