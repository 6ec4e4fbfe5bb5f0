-------------------------------- MODULE Lexer --------------------------------
(***************************************************************************)
(* The lexer of ir/src/lexer.rs, as functions of a text.                   *)
(*                                                                         *)
(* A text is a sequence of glyphs.  A glyph is a character, except that a  *)
(* run of letters or digits nothing depends on the spelling of is one      *)
(* glyph: a keyword, a name, a number.  Lines and columns of tokens, which *)
(* only error messages show, are left out.                                 *)
(***************************************************************************)
EXTENDS Integers, SequencesExt

CONSTANTS
    Letter,    \* glyphs of letters and underscores, keywords among them
    Keyword,   \* those that spell a keyword
    Digit,     \* glyphs of digits
    Huge       \* those too large for an i64

ASSUME GlyphAssumption ==
    /\ Keyword \subseteq Letter /\ Huge \subseteq Digit
    /\ Letter \cap Digit = {}

Newline == "\n"
Blank   == {" ", Newline}
Punct   == {"{", "}", "(", ")", "[", "]", ":", "=", ","}
InWord  == Letter \cup Digit \cup {".", "-"}

\* The first position from i on that is not in S.
SpanEnd(text, i, S) ==
    LET out == {j \in i..Len(text) : text[j] \notin S}
    IN  IF out = {} THEN Len(text) + 1 ELSE Min(out)

CommentAt(text, i) ==
    \/ text[i] = ";"
    \/ text[i] = "/" /\ i < Len(text) /\ text[i + 1] = "/"

CommentEnd(text, i) == SpanEnd(text, i, {text[j] : j \in i..Len(text)} \ {Newline})

\* The position after blanks and comments.
SkipFrom(text) ==
    LET skip[i \in 1..(Len(text) + 1)] ==
          IF i > Len(text) THEN i
          ELSE IF text[i] \in Blank THEN skip[i + 1]
          ELSE IF CommentAt(text, i) THEN skip[CommentEnd(text, i)]
          ELSE i
    IN  skip

\* Mutant: a number takes every dot.
NumberEnd_Dots(text, i) == SpanEnd(text, i, Digit \cup {"."})

\* Digits with at most one dot.
NumberEnd(text, i) ==
    LET d == SpanEnd(text, i, Digit)
    IN  IF d <= Len(text) /\ text[d] = "." THEN SpanEnd(text, d + 1, Digit) ELSE d

Tok(kind, name, from, to) == [kind |-> kind, name |-> name, from |-> from, to |-> to]

\* The number whose digits start at d; from is d, or the sign before it.
NumberToken(text, from, d) ==
    LET lit == SubSeq(text, from, NumberEnd(text, d) - 1)
        float == "." \in ToSet(lit)
    IN  Tok(IF float THEN "float" ELSE IF ToSet(lit) \cap Huge # {} THEN "error" ELSE "int",
            lit, from, NumberEnd(text, d) - 1)

WordToken(text, i) ==
    LET word == SubSeq(text, i, SpanEnd(text, i, InWord) - 1)
        kind == IF Len(word) = 1 /\ word[1] \in Keyword THEN word[1] ELSE "ident"
    IN  Tok(kind, word, i, i + Len(word) - 1)

NameToken(text, i) ==
    LET end == SpanEnd(text, i + 1, InWord)
        kind == IF end = i + 1 THEN "error" ELSE IF text[i] = "@" THEN "fname" ELSE "value"
    IN  Tok(kind, SubSeq(text, i + 1, end - 1), i, end - 1)

\* The token that starts at i; of kind "error" where tokenize returns Err.
TokenAt(text, i) ==
    LET follows(S) == i < Len(text) /\ text[i + 1] \in S
    IN  CASE text[i] \in Punct                      -> Tok(text[i], <<>>, i, i)
          [] text[i] = "-" /\ follows({">"})        -> Tok("->", <<>>, i, i + 1)
          [] text[i] = "-" /\ follows(Digit)        -> NumberToken(text, i, i + 1)
          [] text[i] \in {"@", "%"}                 -> NameToken(text, i)
          [] text[i] \in Digit                      -> NumberToken(text, i, i)
          [] text[i] \in Letter                     -> WordToken(text, i)
          [] OTHER                                  -> Tok("error", <<>>, i, i)

\* tokenize: every token in order, the last one of kind "error" if it fails.
Tokenize(text) ==
    LET skip == SkipFrom(text)
        lex[i \in 1..(Len(text) + 1)] ==
          LET s == skip[i]
              t == TokenAt(text, s)
          IN  IF s > Len(text) THEN <<>>
              ELSE IF t.kind = "error" THEN <<t>>
              ELSE <<t>> \o lex[t.to + 1]
    IN  lex[1]

-----------------------------------------------------------------------------
(* The same by the shape of lexemes, with no scanning: what a tokenizer     *)
(* that always takes the longest token must return.                         *)

IsNumber(s) ==
    LET d == IF s[1] = "-" THEN Tail(s) ELSE s
    IN  /\ d # <<>> /\ d[1] \in Digit
        /\ ToSet(d) \subseteq Digit \cup {"."}
        /\ Cardinality({i \in DOMAIN d : d[i] = "."}) <= 1

IsWord(s) == s[1] \in Letter /\ ToSet(s) \subseteq InWord

IsLexeme(s) ==
    \/ Len(s) = 1 /\ s[1] \in Punct
    \/ s = <<"-", ">">>
    \/ IsNumber(s) \/ IsWord(s)
    \/ s[1] \in {"@", "%"} /\ Len(s) > 1 /\ ToSet(Tail(s)) \subseteq InWord

\* After a comment sign of the same line; neither sign is part of a lexeme.
InComment(text, i) ==
    /\ text[i] # Newline
    /\ \E c \in 1..i : CommentAt(text, c) /\ \A k \in c..i : text[k] # Newline

Significant(text) == {i \in DOMAIN text : text[i] \notin Blank /\ ~InComment(text, i)}

Covered(tokens) == UNION {t.from .. t.to : t \in ToSet(tokens)}

\* A lexeme, and none any more with the next glyph.
Longest(text, t) ==
    /\ IsLexeme(SubSeq(text, t.from, t.to))
    /\ t.to < Len(text) => ~IsLexeme(SubSeq(text, t.from, t.to + 1))

TooLarge(text, t) ==
    /\ Longest(text, t)
    /\ ToSet(SubSeq(text, t.from, t.to)) \cap Huge # {}
    /\ "." \notin ToSet(SubSeq(text, t.from, t.to))

NoLexeme(text, i) == \A j \in i..Len(text) : ~IsLexeme(SubSeq(text, i, j))
=============================================================================
