------------------------------ MODULE KittyScan ------------------------------
(***************************************************************************)
(* The searches of KittyScanner: bytes with a mask, hexadecimal text, IDA  *)
(* patterns, and the table entry of a native method.  Text is a sequence   *)
(* of characters; a byte is a pair of digits, of which two values do.      *)
(***************************************************************************)
EXTENDS Integers, FiniteSets, SequencesExt

CONSTANTS
    ImageSize,   \* cells that are searched
    MaxPattern,  \* longest pattern of bytes
    MaxText,     \* longest text of a pattern
    NameText, SignatureText,  \* texts that a string area can hold, and ...
    LongerText,               \* ... one that the name is a part of
    Strings      \* length of the string area in front of the table of methods

ASSUME ScanAssumption == {ImageSize, MaxPattern, MaxText, Strings} \subseteq Nat /\ NameText # LongerText

VARIABLES query   \* what was asked, and the answers

Digits  == {"0", "1"}
Space   == " "
Wild    == <<"?", "?">>
NoQuery == [kind |-> "none"]
ScanInit == query = NoQuery

-----------------------------------------------------------------------------
(* compare: a pattern is a sequence of bytes and wild cards. *)
compare(image, at, pattern) ==
    \A i \in DOMAIN pattern : pattern[i] = Wild \/ image[at + i - 1] = pattern[i]

Fits(at, n, end) == at + n <= end

(* findInRange: the first place from start on, 0 if there is none.         *)
findInRange(image, start, end, pattern) ==
    LET From[at \in start .. end] ==
            IF pattern = <<>> \/ ~Fits(at, Len(pattern), end) THEN 0
            ELSE IF compare(image, at, pattern) THEN at ELSE From[at + 1]
    IN From[start]

(* Mutant of Onward: the next search begins one byte further.              *)
OnwardByOne(at, pattern) == at + 1
Onward(at, pattern) == at + Len(pattern)

(* findBytesAll: each search goes on behind the match before it. *)
findBytesAll(image, start, end, pattern) ==
    LET From[at \in start .. end] ==
            LET found == findInRange(image, at, end, pattern)
            IN IF found = 0 THEN <<>> ELSE <<found>> \o From[Onward(found, pattern)]
    IN IF start >= end \/ pattern = <<>> THEN <<>> ELSE From[start]

findBytesFirst(image, start, end, pattern) ==
    IF start >= end \/ pattern = <<>> THEN 0 ELSE findInRange(image, start, end, pattern)

-----------------------------------------------------------------------------
(* The text without its spaces. *)
Trim(text) ==
    LET From[i \in 1 .. Len(text) + 1] ==
            IF i > Len(text) THEN <<>>
            ELSE IF text[i] = Space THEN From[i + 1]
            ELSE <<text[i]>> \o From[i + 1]
    IN From[1]

(* A leading 0x goes first, then the spaces; <<>> if what is left is not   *)
(* an even number of digits.                                               *)
ValidateHex(text) ==
    LET bare == Trim(IF IsPrefix(<<"0", "x">>, text) THEN SubSeq(text, 3, Len(text)) ELSE text)
    IN IF Len(bare) >= 2 /\ Len(bare) % 2 = 0 /\ ToSet(bare) \subseteq Digits THEN bare ELSE <<>>

dataFromHex(hex) == [i \in 1 .. Len(hex) \div 2 |-> <<hex[2 * i - 1], hex[2 * i]>>]

(* findHexAll, findHexFirst: the mask says how long the pattern has to be. *)
HexPattern(text, mask) ==
    LET data == dataFromHex(ValidateHex(text))
    IN IF Len(data) # Len(mask) THEN <<>> ELSE [i \in DOMAIN data |-> IF mask[i] = "x" THEN data[i] ELSE Wild]

(* findIdaPatternAll, findIdaPatternFirst: anything that is not a space, a *)
(* question mark or a pair of digits is passed over.                       *)
IdaPattern(text) ==
    LET digit(i) == i <= Len(text) /\ text[i] \in Digits
        From[i \in 1 .. Len(text) + 2] ==
            IF i > Len(text) THEN <<>>
            ELSE IF text[i] = "?" THEN <<Wild>> \o From[i + 1]
            ELSE IF digit(i) /\ digit(i + 1) THEN <<<<text[i], text[i + 1]>>>> \o From[i + 2]
            ELSE From[i + 1]
    IN From[1]

-----------------------------------------------------------------------------
FirstName(strings) == SelectInSeq(strings, LAMBDA s : s \in {NameText, LongerText})

(* findRegisterNativeFn over a string area and a table of words, each a    *)
(* segment of its own; the words are addresses of strings, or 0.  Only the *)
(* first place that reads as the name is followed, and only the first word *)
(* that points there.                                                      *)
findRegisterNativeFn(strings, words) ==
    LET name == FirstName(strings)
        xref == IF name = 0 \/ strings[name] = LongerText THEN 0 ELSE SelectInSeq(words, LAMBDA w : w = name)
        sign == IF xref \in {0, Len(words)} THEN 0 ELSE words[xref + 1]
    IN IF sign # 0 /\ strings[sign] = SignatureText THEN xref ELSE 0

-----------------------------------------------------------------------------
Image == [1 .. ImageSize -> {<<"0", "1">>, <<"1", "0">>}]
TextOf(chars) == UNION {[1 .. n -> chars] : n \in 1 .. MaxText}

FindBytes ==
    \E image \in Image, start \in 1 .. ImageSize, end \in 1 .. ImageSize + 1, n \in 1 .. MaxPattern :
    \E pattern \in [1 .. n -> {<<"0", "1">>, <<"1", "0">>, Wild}] :
        query' = [kind |-> "bytes", image |-> image, start |-> start, end |-> end, pattern |-> pattern,
                  first |-> findBytesFirst(image, start, end, pattern),
                  all |-> findBytesAll(image, start, end, pattern)]
FindHex ==
    \E text \in TextOf({"0", "1", "x", Space}), n \in 1 .. MaxText \div 2 :
    \E mask \in [1 .. n -> {"x", "?"}] :
        query' = [kind |-> "hex", text |-> text, mask |-> mask, pattern |-> HexPattern(text, mask)]
FindIda ==
    \E text \in TextOf({"0", "1", "?", Space}) :
        query' = [kind |-> "ida", text |-> text, pattern |-> IdaPattern(text)]
FindNative ==
    \E strings \in [1 .. Strings -> {NameText, SignatureText, LongerText}], words \in [1 .. 4 -> 0 .. Strings] :
        query' = [kind |-> "native", strings |-> strings, words |-> words,
                  found |-> findRegisterNativeFn(strings, words)]

ScanNext == query = NoQuery /\ (FindBytes \/ FindHex \/ FindIda \/ FindNative)

-----------------------------------------------------------------------------
Matches(q) == {a \in q.start .. q.end - Len(q.pattern) : compare(q.image, a, q.pattern)}

(* The first match is the leftmost one of all that lie in the range.       *)
FirstIsLeftmost ==
    query.kind = "bytes" =>
        IF Matches(query) = {} THEN query.first = 0
        ELSE query.first \in Matches(query) /\ \A a \in Matches(query) : query.first <= a

(* All matches: they are in order, do not overlap, and every match begins  *)
(* inside one of them.                                                     *)
AllCoverMatches ==
    query.kind = "bytes" =>
        LET n == Len(query.pattern) IN
        /\ ToSet(query.all) \subseteq Matches(query)
        /\ \A i \in 1 .. Len(query.all) - 1 : query.all[i] + n <= query.all[i + 1]
        /\ \A a \in Matches(query) : \E b \in ToSet(query.all) : b <= a /\ a < b + n

(* The same bytes mean the same pattern in both notations: text of pairs   *)
(* of digits with spaces only between bytes is read by findHex with a full *)
(* mask as by findIdaPattern.                                              *)
NotationsAgree ==
    query.kind = "hex" =>
        LET q == query
            plain == /\ ToSet(q.text) \subseteq Digits \cup {Space}
                     /\ ToSet(q.mask) = {"x"}
                     /\ \A i \in DOMAIN q.text : q.text[i] = Space =>
                            Cardinality({k \in 1 .. i : q.text[k] \in Digits}) % 2 = 0
        IN plain /\ q.pattern # <<>> => q.pattern = IdaPattern(q.text)

(* The entry of a method is found when its name is in the string area and  *)
(* in the table just once; what is found is an entry of this name and      *)
(* signature.                                                              *)
NativeFound ==
    query.kind = "native" =>
        LET named == {i \in 1 .. 3 : query.words[i] # 0 /\ query.strings[query.words[i]] = NameText}
            right == {i \in named : query.words[i + 1] # 0 /\ query.strings[query.words[i + 1]] = SignatureText}
            once  == Cardinality({s \in 1 .. Strings : query.strings[s] \in {NameText, LongerText}}) = 1
        IN /\ query.found # 0 => query.found \in right
           /\ once /\ named = right /\ Cardinality(named) = 1 => query.found \in right

(* Searches for bytes: the first is the leftmost, all cover every match,   *)
(* both notations agree, and a native method is found by name and          *)
(* signature.                                                              *)
SearchInv == FirstIsLeftmost /\ AllCoverMatches /\ NotationsAgree /\ NativeFound
=============================================================================
