------------------------------ MODULE Formatter ------------------------------
(***************************************************************************)
(* The patterns of log lines (Formatter::init): a pattern is a sequence of *)
(* characters, of which the parser tells apart "%", the braces, letters    *)
(* and the rest.  `tokens' is the pattern its author had in mind.          *)
(***************************************************************************)
EXTENDS Integers, Sequences, SequencesExt

CONSTANTS Alpha,       \* the letters of the instance
          ItemMap,     \* item_map: the letters that name an item
          Tokens,      \* what an author writes: [kind, s, fmt]
          MaxTokens    \* bound: tokens in a pattern

VARIABLE tokens

First(S, default) == IF S = {} THEN default ELSE Min(S)

\* One turn of the scan at character i: what is found and where the scan goes on.
Scan(p, i) ==
    LET stop == First({n \in i + 1 .. Len(p) : p[n] \notin Alpha \cup {"{", "}"}}, Len(p) + 1)
        open == First({n \in i + 1 .. stop - 1 : p[n] = "{"}, 0)
        close == First({n \in open + 1 .. Len(p) : p[n] = "}"}, 0)
        item(s, fmt, n) == [kind |-> "item", s |-> s, fmt |-> fmt, next |-> n]
    IN  CASE p[i] # "%" \/ (i < Len(p) /\ p[i + 1] = "%") -> [kind |-> "text", s |-> <<p[i]>>, fmt |-> <<>>, next |-> i + 1]
          [] open = 0 -> item(SubSeq(p, i + 1, stop - 1), <<>>, stop)
          [] open # 0 /\ close # 0 -> item(SubSeq(p, i + 1, open - 1), SubSeq(p, open + 1, close - 1), close + 1)
          [] OTHER -> [kind |-> "error", s |-> <<>>, fmt |-> <<>>, next |-> i + 1]

Scanned(p) ==
    LET from[i \in 1 .. Len(p) + 1] == IF i > Len(p) THEN <<>> ELSE LET t == Scan(p, i) IN <<t>> \o from[t.next]
    IN  from[1]

\* A mutant of Pieces: the text before an item follows it.
PiecesLate(found) ==
    LET add(acc, t) == CASE t.kind = "text"  -> [acc EXCEPT !.nstr = @ \o t.s]
                         [] t.kind = "item"  -> [acc EXCEPT !.vec = Append(@, [kind |-> "item", s |-> t.s, fmt |-> t.fmt])]
                         [] t.kind = "error" -> [acc EXCEPT !.vec = Append(@, [kind |-> "pattern_error", s |-> <<>>, fmt |-> <<>>])]
        all == FoldLeft(add, [vec |-> <<>>, nstr |-> <<>>], found)
    IN  all.vec \o IF all.nstr = <<>> THEN <<>> ELSE <<[kind |-> "text", s |-> all.nstr, fmt |-> <<>>]>>

\* vec: text is collected in nstr and put before the next item, or at the end; an
\* unclosed brace leaves its mark without waiting for the text before it.
Pieces(found) ==
    LET flush(acc) == IF acc.nstr = <<>> THEN acc
                      ELSE [vec |-> Append(acc.vec, [kind |-> "text", s |-> acc.nstr, fmt |-> <<>>]), nstr |-> <<>>]
        add(acc, t) == CASE t.kind = "text"  -> [acc EXCEPT !.nstr = @ \o t.s]
                         [] t.kind = "item"  -> [flush(acc) EXCEPT !.vec = Append(@, [kind |-> "item", s |-> t.s, fmt |-> t.fmt])]
                         [] t.kind = "error" -> [acc EXCEPT !.vec = Append(@, [kind |-> "pattern_error", s |-> <<>>, fmt |-> <<>>])]
    IN  flush(FoldLeft(add, [vec |-> <<>>, nstr |-> <<>>], found)).vec

Known(piece) == piece.s \in {<<k>> : k \in ItemMap}

\* Formatter::init: the items, the unknown ones as text, and _b_error.
Parsed(p) ==
    LET vec == Pieces(Scanned(p))
    IN  [items |-> [k \in DOMAIN vec |-> IF vec[k].kind = "item" /\ ~Known(vec[k])
                                         THEN [kind |-> "error_format", s |-> vec[k].s, fmt |-> <<>>] ELSE vec[k]],
         error |-> \E k \in DOMAIN vec : vec[k].kind = "pattern_error" \/ (vec[k].kind = "item" /\ ~Known(vec[k]))]

-----------------------------------------------------------------------------
Written(t) == CASE t.kind = "text" -> t.s
                [] t.kind = "item" -> <<"%">> \o t.s \o IF t.fmt = <<>> THEN <<>> ELSE <<"{">> \o t.fmt \o <<"}">>
Pattern == FlattenSeq([k \in DOMAIN tokens |-> Written(tokens[k])])

FormatInit == tokens = <<>>
\* The author goes on; a letter or a brace next to an item would be part of it.
FormatNext == \E t \in Tokens :
    /\ Len(tokens) < MaxTokens
    /\ t.kind = "text" /\ tokens # <<>> /\ Last(tokens).kind = "item" /\ Last(tokens).fmt = <<>>
       => Head(t.s) \notin Alpha \cup {"{", "}"}
    /\ tokens' = Append(tokens, t)

\* What a formatter prints, one character or item at a time.
Printed(items) ==
    FlattenSeq([k \in DOMAIN items |-> IF items[k].kind = "text" THEN [n \in DOMAIN items[k].s |-> <<items[k].s[n]>>]
                                       ELSE <<<<items[k].kind, items[k].s, items[k].fmt>>>>])

\* The items a pattern was written for are the ones the formatter prints, in
\* order and with the text between them, and isError() holds exactly when one
\* of them does not exist: whatever follows a name or a brace.  Only for a "%"
\* among the text there is no promise: "%%" puts a "%" and then reads on from the
\* second one.
FormatterReads ==
    LET got == Parsed(Pattern)
        want == [k \in DOMAIN tokens |->
                    IF tokens[k].kind = "item" /\ tokens[k].s \notin {<<a>> : a \in ItemMap}
                    THEN [kind |-> "error_format", s |-> tokens[k].s, fmt |-> <<>>]
                    ELSE tokens[k]]
    IN  (\A k \in DOMAIN tokens : tokens[k].kind = "text" => ~Contains(tokens[k].s, "%")) =>
           /\ Printed(got.items) = Printed(want)
           /\ got.error <=> \E k \in DOMAIN want : want[k].kind = "error_format"
=============================================================================
