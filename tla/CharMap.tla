------------------------------ MODULE CharMap ------------------------------
(***************************************************************************)
(* libx52util_convert_utf8_string, one round of its loop at a time: UTF-8  *)
(* to the character set of the MFD by a tree of tables that                *)
(* x52_char_map_gen.py builds from a list of code points.                  *)
(***************************************************************************)
EXTENDS Naturals, Sequences, FiniteSets, SequencesExt, FiniteSetsExt

CONSTANTS
    Map,            \* the list: values by code point
    Utf8Texts,      \* inputs, sequences of bytes without the final NUL
    Sizes           \* lengths of the output buffer

VARIABLES
    text, size,     \* the arguments
    input,          \* the index of the byte *input
    entry,          \* the table entry, as the bytes that lead to it
    output,
    retval          \* "running", or 0 or -E2BIG
mvars == <<text, size, input, entry, output, retval>>

-----------------------------------------------------------------------------
(* The tables.                                                             *)

\* The UTF-8 bytes of a code point below 65536.
Utf8(cp) ==
    IF cp < 128 THEN <<cp>>
    ELSE IF cp < 2048 THEN <<192 + cp \div 64, 128 + (cp % 64)>>
    ELSE <<224 + cp \div 4096, 128 + ((cp \div 64) % 64), 128 + (cp % 64)>>

Values == [bytes \in {Utf8(cp) : cp \in DOMAIN Map} |-> Map[CHOOSE cp \in DOMAIN Map : Utf8(cp) = bytes]]

\* The type of the entry that the bytes lead to: a value, a table, or neither.
Type(bytes) ==
    IF bytes \in DOMAIN Values THEN "entry"
    ELSE IF \E known \in DOMAIN Values : IsStrictPrefix(bytes, known) THEN "pointer"
    ELSE "invalid"

-----------------------------------------------------------------------------
NUL == 0
ByteAt(i) == IF i <= Len(text) THEN text[i] ELSE NUL
Continues(byte) == byte \in 128..191

\* The first byte from i on that does not continue a character.
Skip(i) == Min({j \in i..(Len(text) + 1) : ~Continues(ByteAt(j))})

\* Code points of 16 bits, as in the list; a text ends at its NUL; a buffer has room for a byte.
Plane == {cp \in Nat : cp < 16 * 4096}
TextByte == 1..255
InputsOK == DOMAIN Map \subseteq Plane /\ Utf8Texts \subseteq Seq(TextByte) /\ Sizes \subseteq Nat \ {0}

ConvertInit ==
    /\ text \in Utf8Texts /\ size \in Sizes
    /\ input = 1 /\ entry = <<ByteAt(1)>>
    /\ output = <<>> /\ retval = "running"

\* Faulty: the buffer is found full one byte too late.
Full_Late(out) == Len(out) > size
Full(out) == Len(out) >= size

\* A value is written; the buffer may be full now.
TakeEntry ==
    /\ Type(entry) = "entry"
    /\ input' = input + 1
    /\ output' = Append(output, Values[entry])
    /\ IF Full(output') THEN retval' = "-E2BIG" /\ UNCHANGED entry
       ELSE entry' = <<ByteAt(input + 1)>> /\ UNCHANGED retval

\* Faulty: a byte that begins a character is taken for one that continues it.
Next_NoResync(byte) == TRUE
NextInTable(byte) == Continues(byte)

\* Faulty: the lower six bits of any byte are looked up.
FollowPointer_Unchecked ==
    /\ Type(entry) = "pointer"
    /\ input' = input + 1 /\ entry' = Append(entry, 128 + (ByteAt(input + 1) % 64))
    /\ UNCHANGED <<output, retval>>

\* The next byte goes on in the table, or the sequence is broken off.
FollowPointer ==
    /\ Type(entry) = "pointer"
    /\ \/ /\ NextInTable(ByteAt(input + 1))
          /\ input' = input + 1 /\ entry' = Append(entry, ByteAt(input + 1))
       \/ /\ ~NextInTable(ByteAt(input + 1))
          /\ input' = Skip(input + 1) /\ entry' = <<ByteAt(Skip(input + 1))>>
    /\ UNCHANGED <<output, retval>>

\* The entry stays the invalid one.
SkipInvalid ==
    /\ Type(entry) = "invalid"
    /\ input' = Skip(input + 1)
    /\ UNCHANGED <<entry, output, retval>>

Step ==
    /\ retval = "running" /\ ByteAt(input) # NUL
    /\ TakeEntry \/ FollowPointer \/ SkipInvalid
    /\ UNCHANGED <<text, size>>

Return ==
    /\ retval = "running" /\ ByteAt(input) = NUL
    /\ retval' = "0"
    /\ UNCHANGED <<text, size, input, entry, output>>

ConvertNext == Step \/ Return
ConvertSpec == ConvertInit /\ [][ConvertNext]_mvars

-----------------------------------------------------------------------------
(* The reference: a text is a sequence of characters of the map and of      *)
(* characters of the map that are broken off.                              *)

\* The characters of the map that t has whole at i, and the numbers of bytes of those
\* it has broken off there.
Whole(t, i) == {k \in DOMAIN Values : IsPrefix(k, SubSeq(t, i, Len(t)))}
Broken(t, i) == {n \in 1..(Len(t) + 1 - i) :
                    /\ Type(SubSeq(t, i, i + n - 1)) = "pointer"
                    /\ i + n <= Len(t) => ~Continues(t[i + n])}

\* All ways to read the bytes t so, as the characters that are whole.
Readings(t) ==
    LET read[i \in 1..(Len(t) + 1)] ==
            IF i > Len(t) THEN {<<>>}
            ELSE (UNION {{<<k>> \o w : w \in read[i + Len(k)]} : k \in Whole(t, i)})
                 \cup (UNION {read[i + n] : n \in Broken(t, i)})
    IN read[1]
Converted(w) == SubSeq([i \in DOMAIN w |-> Values[w[i]]], 1, Min({Len(w), size}))

\* The buffer is never written past its end nor the text read past its NUL, whatever
\* bytes it has.
InBounds == Len(output) <= size /\ input <= Len(text) + 1

\* A text of characters of the map is converted character by character, as far as it
\* fits, and one that is broken off anywhere is dropped without those behind it; a
\* text that is cut is reported, and only one that fills the buffer is.  Whether a text
\* that just fits is reported is left open: the code says -E2BIG, while libx52util.h:46
\* says it of a buffer "filled up before converting the entire string".
TextConverted ==
    retval # "running" =>
        \A w \in Readings(text) :
            /\ output = Converted(w)
            /\ Len(w) > size => retval = "-E2BIG"
            /\ retval = "-E2BIG" => Len(w) >= size

\* Whatever bytes a text has, unknown characters among them, what is written are
\* characters that it has whole, in their order: none is put together of bytes of two.
NothingInvented ==
    \E at \in [1..Len(output) -> 1..Len(text)] :
        \A j \in 1..Len(output) : \E k \in Whole(text, at[j]) :
            /\ Values[k] = output[j]
            /\ j < Len(output) => at[j] + Len(k) <= at[j + 1]
=============================================================================
