----------------------------- MODULE Redaction ------------------------------
(***************************************************************************)
(* Texts with placeholders, the values written into them, and the Redactor *)
(* that masks these values again.  A text is a sequence of symbols.  A     *)
(* symbol has its character and, as history that no operator of the        *)
(* program looks at, the secret value it was written in as a part of.  A   *)
(* placeholder is one symbol, as is the mask "***".                        *)
(***************************************************************************)
EXTENDS Integers, Sequences, FiniteSets, SequencesExt

CONSTANTS
    Reserved        \* the characters that JSON and URL encoding rewrite

NoValue == <<>>

Stars == [c |-> "***", from |-> NoValue]

\* A text that holds nothing secret, and one secret value written in.
PlainText(chars) == [i \in DOMAIN chars |-> [c |-> chars[i], from |-> NoValue]]

Injected(value) == [i \in DOMAIN value |-> [c |-> value[i], from |-> value]]

Cut(text, n) == IF Len(text) > n THEN SubSeq(text, 1, n) ELSE text

-----------------------------------------------------------------------------
(* Encoding: what a query string or a JSON document makes of a text.  What  *)
(* was a value before is its encoded form after.                            *)

EncodedChar(c) == IF c \in Reserved THEN "%" \o c ELSE c

EncodedValue(value) == [i \in DOMAIN value |-> EncodedChar(value[i])]

Encoded(text) ==
    [i \in DOMAIN text |-> [c |-> EncodedChar(text[i].c),
                            from |-> EncodedValue(text[i].from)]]

-----------------------------------------------------------------------------
(* The Redactor. *)

OccursAt(text, value, i) ==
    /\ i + Len(value) - 1 <= Len(text)
    /\ \A k \in DOMAIN value : text[i + k - 1].c = value[k]

MaskStep(text, value, s) ==
    IF s.next > Len(text) THEN s
    ELSE IF OccursAt(text, value, s.next)
    THEN [next |-> s.next + Len(value), done |-> Append(s.done, Stars)]
    ELSE [next |-> s.next + 1, done |-> Append(s.done, text[s.next])]

\* strings.ReplaceAll(text, value, "***"): from the left, without overlaps.
MaskAll(text, value) ==
    LET after[k \in 0 .. Len(text)] ==
            IF k = 0 THEN [next |-> 1, done |-> <<>>] ELSE MaskStep(text, value, after[k - 1])
    IN  after[Len(text)].done

ShortestFirst(values) ==
    {q \in SetToSeqs(values \ {NoValue}) :
        \A i, j \in DOMAIN q : i < j => Len(q[i]) <= Len(q[j])}

\* The redactors that NewRedactor may build from these values: empty ones and
\* duplicates are dropped, the longest come first, equally long ones in any order.
LongestFirst(values) ==
    {q \in SetToSeqs(values \ {NoValue}) :
        \A i, j \in DOMAIN q : i < j => Len(q[i]) >= Len(q[j])}

Masked(redactor, text) ==
    LET after[k \in 0 .. Len(redactor)] ==
            IF k = 0 THEN text ELSE MaskAll(after[k - 1], redactor[k])
    IN  after[Len(redactor)]

MaskedHeader(redactor, sensitive, text) ==
    IF sensitive THEN <<Stars>> ELSE Masked(redactor, text)

-----------------------------------------------------------------------------
(* What can escape a redactor of whole values. *)

\* A proper end of v is a proper beginning of w: occurrences of the two may share
\* characters although neither holds the other.
Borders(v, w) ==
    \E k \in 1 .. Len(v) - 1 : k < Len(w) /\ IsSuffix(SubSeq(w, 1, k), v)

Overlapping(values) == \E v, w \in values : Borders(v, w)

\* What remains of a secret in the text that a redactor has masked.
Remains(text) == {i \in DOMAIN text : text[i].from # NoValue}
=============================================================================
