----------------------------- MODULE HtmlParts -----------------------------
(* How core/telegram_diagnostics.py splits a reply of HTML lines that is longer *)
(* than a message may be: a line that is too long into segments, between        *)
(* which the open tags are closed and opened again, and the lines into parts.   *)
(* A line is the sequence of its tokens, of which only a text may be cut.       *)
EXTENDS Integers, Sequences, FiniteSetsExt, SequencesExt

CONSTANTS Texts,        \* replies: sequences of lines
          TagNames,     \* _BALANCED_TAGS
          OpenLen, CloseLen,    \* the lengths of their tags, by name
          LIMIT         \* TELEGRAM_TEXT_LIMIT

Token == [kind : {"open", "close"}, name : TagNames, len : Nat \ {0}]
             \cup [kind : {"entity", "text"}, len : Nat \ {0}]

VARIABLES text, lineno,
          tokenno, remaining,        \* the token in work, and what is left of a text
          body, stack, start_stack,  \* the segment in work: pieces, open tags, those at its start
          segments,                  \* the lines and segments so far
          parts, packed              \* the parts so far, and the segments that are in them
segment == <<body, stack, start_stack>>
partsVars == <<text, lineno, tokenno, remaining, segment, segments, parts, packed>>
-----------------------------------------------------------------------------
Length(pieces) == SumFunction([i \in DOMAIN pieces |-> pieces[i].len])
Prefix(tags) == SumFunction([i \in DOMAIN tags |-> OpenLen[tags[i]]])
Suffix(tags) == SumFunction([i \in DOMAIN tags |-> CloseLen[tags[i]]])
Projected(extra, after) == Prefix(start_stack) + Length(body) + extra + Suffix(after)

\* The open tags after a token; a closing tag that does not match the last is passed over.
After(tags, token) ==
    IF token.kind = "open" THEN Append(tags, token.name)
    ELSE IF token.kind = "close" /\ tags # <<>> /\ Last(tags) = token.name THEN Front(tags)
    ELSE tags

\* The open tags after each of the tokens, if those in base were open before.
TagsAlong(base, tokens) ==
    LET tags[n \in 0..Len(tokens)] == IF n = 0 THEN base ELSE After(tags[n - 1], tokens[n])
    IN tags
Matched(base, tokens) ==
    \A n \in DOMAIN tokens : tokens[n].kind = "close" =>
        LET tags == TagsAlong(base, tokens)[n - 1]  IN  tags # <<>> /\ Last(tags) = tokens[n].name

\* A tag, an entity, or a character of a text, with the tags around it.
Atom(line, n) ==
    Prefix(TagsAlong(<<>>, line)[n - 1]) + (IF line[n].kind = "text" THEN 1 ELSE line[n].len)
        + Suffix(TagsAlong(<<>>, line)[n])

\* The replies close the tags of a line in it, and none holds an atom near the length of a
\* message (format_position_modes, format_position_mode).
ASSUME PartsAssumption ==
    /\ Texts \subseteq Seq(Seq(Token)) /\ LIMIT \in Nat
    /\ OpenLen \in [TagNames -> Nat] /\ CloseLen \in [TagNames -> Nat]
    /\ \A reply \in Texts : \A i \in DOMAIN reply :
         /\ Matched(<<>>, reply[i]) /\ TagsAlong(<<>>, reply[i])[Len(reply[i])] = <<>>
         /\ \A n \in DOMAIN reply[i] : Atom(reply[i], n) <= LIMIT

\* A segment: its pieces between tags opened again and tags closed early.
SegmentOf(pieces, opened, closed) ==
    [pieces |-> pieces, opened |-> opened, closed |-> closed,
     len |-> Prefix(opened) + Length(pieces) + Suffix(closed)]

\* Mutant: the tags at the start of the next segment are not those left open.
FlushedKeepingStart(pieces) ==
    /\ segments' = IF body = <<>> THEN segments ELSE Append(segments, SegmentOf(body, start_stack, stack))
    /\ body' = pieces /\ start_stack' = start_stack

\* flush, after which the segment begins with the pieces given.
Flushed(pieces) ==
    /\ segments' = IF body = <<>> THEN segments ELSE Append(segments, SegmentOf(body, start_stack, stack))
    /\ body' = pieces
    /\ start_stack' = IF body = <<>> THEN start_stack ELSE stack

PartsInit ==
    /\ text \in Texts /\ lineno = 1
    /\ tokenno = 0 /\ remaining = 0
    /\ body = <<>> /\ stack = <<>> /\ start_stack = <<>>
    /\ segments = <<>> /\ parts = <<>> /\ packed = 0

Split == lineno > Len(text)
Line == text[lineno]
InLine == ~Split /\ tokenno \in 1..Len(Line)
Current == Line[tokenno]
Piece(len) == [line |-> lineno, token |-> tokenno, len |-> len]

\* tokenno 0: the line has not been looked at.
KeepLine ==
    /\ ~Split /\ tokenno = 0 /\ Length(Line) <= LIMIT
    /\ segments' = Append(segments, SegmentOf(
           [i \in 1..Len(Line) |-> [line |-> lineno, token |-> i, len |-> Line[i].len]], <<>>, <<>>))
    /\ lineno' = lineno + 1
    /\ UNCHANGED <<text, tokenno, remaining, segment, parts, packed>>

Reach(n) == tokenno' = n /\ remaining' = IF n \in 1..Len(Line) THEN Line[n].len ELSE 0

BeginLine ==
    /\ ~Split /\ tokenno = 0 /\ Length(Line) > LIMIT
    /\ Reach(1)
    /\ body' = <<>> /\ stack' = <<>> /\ start_stack' = <<>>
    /\ UNCHANGED <<text, lineno, segments, parts, packed>>

\* A tag or an entity stays whole, in the next segment if this one would be too long with it
\* and with the tags that would then have to be closed.
TakeAtom ==
    /\ InLine /\ Current.kind # "text"
    /\ LET after == After(stack, Current)
           piece == Piece(Current.len)
       IN /\ IF body # <<>> /\ Projected(Current.len, after) > LIMIT
             THEN Flushed(<<piece>>)
             ELSE body' = Append(body, piece) /\ UNCHANGED <<start_stack, segments>>
          /\ stack' = after
    /\ Reach(tokenno + 1)
    /\ UNCHANGED <<text, lineno, parts, packed>>

\* One round of the loop over a text.
Room == LIMIT - Prefix(start_stack) - Length(body) - Suffix(stack)
TakeText ==
    /\ InLine /\ Current.kind = "text"
    /\ IF Room <= 0 /\ body # <<>>
       THEN Flushed(<<>>) /\ UNCHANGED <<tokenno, remaining>>
       ELSE LET take == Min({remaining, Max({Room, 1})})
                taken == Append(body, Piece(take))
            IN IF take < remaining
               THEN /\ segments' = Append(segments, SegmentOf(taken, start_stack, stack))
                    /\ body' = <<>> /\ start_stack' = stack
                    /\ remaining' = remaining - take /\ UNCHANGED tokenno
               ELSE body' = taken /\ UNCHANGED <<start_stack, segments>> /\ Reach(tokenno + 1)
    /\ UNCHANGED <<text, lineno, stack, parts, packed>>

EndLine ==
    /\ ~Split /\ tokenno > Len(Line)
    /\ Flushed(<<>>)
    /\ lineno' = lineno + 1 /\ tokenno' = 0
    /\ UNCHANGED <<text, remaining, stack, parts, packed>>

\* The lines are joined by line feeds.
PartLen(part) == Length(part) + Len(part) - 1

\* _pack_html_lines: a line starts the next part if the last one has no room for it.
PackLine ==
    /\ Split /\ packed < Len(segments)
    /\ LET line == segments[packed + 1]  IN
       parts' = IF parts # <<>> /\ PartLen(Last(parts)) + line.len + 1 <= LIMIT
                THEN [parts EXCEPT ![Len(parts)] = Append(@, line)] ELSE Append(parts, <<line>>)
    /\ packed' = packed + 1
    /\ UNCHANGED <<text, lineno, tokenno, remaining, segment, segments>>

PartsNext == KeepLine \/ BeginLine \/ TakeAtom \/ TakeText \/ EndLine \/ PackLine
PartsSpec == PartsInit /\ [][PartsNext]_partsVars
-----------------------------------------------------------------------------
TokenOf(piece) == text[piece.line][piece.token]

\* The tags of a segment match, those it opens again and closes early included.
Balanced(s) ==
    LET tokens == [i \in DOMAIN s.pieces |-> TokenOf(s.pieces[i])]
    IN Matched(s.opened, tokens) /\ TagsAlong(s.opened, tokens)[Len(tokens)] = s.closed

\* How much of a token is in some pieces.
Share(pieces, l, t) ==
    SumFunction([i \in DOMAIN pieces |->
        IF pieces[i].line = l /\ pieces[i].token = t THEN pieces[i].len ELSE 0])

\* How many segments are in the first n of some parts.
Packed(some, n) == SumFunction([i \in 1..n |-> Len(some[i])])

InOrder(p, q) == p.line < q.line \/ (p.line = q.line /\ p.token <= q.token)

\* Every part fits a message and has its tags matched in every line; the parts hold the lines
\* of the reply in order and complete, and no tag and no entity is cut
\* (core/telegram_diagnostics.py:303).
PartsFit ==
    /\ \A i \in DOMAIN parts : PartLen(parts[i]) <= LIMIT
    /\ \A i \in DOMAIN segments : Balanced(segments[i])
    /\ Packed(parts, Len(parts)) = packed
    /\ \A i \in DOMAIN parts : \A k \in DOMAIN parts[i] : parts[i][k] = segments[Packed(parts, i - 1) + k]
    /\ \A i \in DOMAIN segments : \A k \in DOMAIN segments[i].pieces :
        LET p == segments[i].pieces[k]
        IN /\ TokenOf(p).kind # "text" => p.len = TokenOf(p).len
           /\ \A j \in DOMAIN segments : \A m \in DOMAIN segments[j].pieces :
                i < j \/ (i = j /\ k <= m) => InOrder(p, segments[j].pieces[m])
    /\ Split => \A l \in DOMAIN text : \A t \in DOMAIN text[l] :
         SumFunction([i \in DOMAIN segments |-> Share(segments[i].pieces, l, t)]) = text[l][t].len
=============================================================================
