---------------------------- MODULE TokenCaching ----------------------------
(***************************************************************************)
(* The layer of cached tokens between the parser and the lexers            *)
(* (lib/Lex/PPCaching.cpp and the inline functions of Preprocessor.h).     *)
(*                                                                         *)
(* A preprocessor is a record:                                             *)
(*   CachedTokens        tokens kept for lookahead or for backtracking     *)
(*   CachedLexPos        how many of them have been read                   *)
(*   BacktrackPositions  stack of positions to come back to                *)
(*   caching             the caching layer is on top of the include stack  *)
(*   lexers              what the lexers below that layer will produce     *)
(*                                                                         *)
(* Every function of the layer is an operator from a preprocessor to a     *)
(* preprocessor; `...Asserts' is what the function asserts on entry.  A    *)
(* token is the interval [first, last] of source positions it stands for,  *)
(* and its kind.                                                           *)
(***************************************************************************)
EXTENDS Integers, Sequences

\* Replaces s[a+1 .. b] by ts: SmallVector's insert, erase and push_back.
Splice(s, a, b, ts) == SubSeq(s, 1, a) \o ts \o SubSeq(s, b + 1, Len(s))

\* An open preprocessor, before anything is cached.
Opened(source) ==
    [CachedTokens |-> << >>, CachedLexPos |-> 0, BacktrackPositions |-> << >>,
     caching |-> FALSE, lexers |-> source]

isBacktrackEnabled(pp) == pp.BacktrackPositions # << >>

LastBacktrack(pp) == pp.BacktrackPositions[Len(pp.BacktrackPositions)]

Unread(pp) == pp.CachedLexPos < Len(pp.CachedTokens)

\* The token Lex returns.
LexResult(pp) ==
    IF pp.caching /\ Unread(pp) THEN pp.CachedTokens[pp.CachedLexPos + 1]
                                ELSE Head(pp.lexers)

\* Mutant: what is unread is dropped too when nobody can come back.
LexForgets(pp) ==
    CASE pp.caching /\ Unread(pp) /\ isBacktrackEnabled(pp) -> [pp EXCEPT !.CachedLexPos = @ + 1]
      [] pp.caching /\ Unread(pp) /\ ~isBacktrackEnabled(pp) ->
           [pp EXCEPT !.CachedTokens = << >>, !.CachedLexPos = 0, !.caching = FALSE]
      [] ~(pp.caching /\ Unread(pp)) -> [pp EXCEPT !.lexers = Tail(@)]

\* Lex: from the cache if the layer has unread tokens, else from below; the
\* token is kept if somebody may come back to it, and the cache is dropped
\* once all of it was read and nobody can.
Lex(pp) ==
    CASE pp.caching /\ Unread(pp) -> [pp EXCEPT !.CachedLexPos = @ + 1]
      [] pp.caching /\ ~Unread(pp) /\ isBacktrackEnabled(pp) ->
           [pp EXCEPT !.CachedTokens = Append(@, Head(pp.lexers)),
                      !.CachedLexPos = @ + 1,
                      !.lexers = Tail(@)]
      [] pp.caching /\ ~Unread(pp) /\ ~isBacktrackEnabled(pp) ->
           [pp EXCEPT !.CachedTokens = << >>, !.CachedLexPos = 0,
                      !.caching = FALSE, !.lexers = Tail(@)]
      [] ~pp.caching -> [pp EXCEPT !.lexers = Tail(@)]

\* How many tokens LookAhead(n) must fetch from below.
Missing(pp, n) == pp.CachedLexPos + n + 1 - Len(pp.CachedTokens)

\* LookAhead(n) and PeekAhead(n + 1).
LookAhead(pp, n) ==
    IF pp.CachedLexPos + n < Len(pp.CachedTokens) THEN pp
    ELSE [pp EXCEPT !.CachedTokens = @ \o SubSeq(pp.lexers, 1, Missing(pp, n)),
                    !.lexers = SubSeq(@, Missing(pp, n) + 1, Len(@)),
                    !.caching = TRUE]

LookAheadResult(pp, n) ==
    LET after == LookAhead(pp, n)
    IN after.CachedTokens[after.CachedLexPos + n + 1]

\* EnterToken, called by the parser (LexLevel is 0).
EnterToken(pp, tok) ==
    [pp EXCEPT !.CachedTokens = Splice(@, pp.CachedLexPos, pp.CachedLexPos, <<tok>>),
               !.caching = TRUE]

\* Mutant: always below the cache.
EnterTokenStreamBelow(pp, toks) == [pp EXCEPT !.lexers = toks \o @]

\* EnterTokenStream: into the cache if some of it is unread, else below it.
EnterTokenStream(pp, toks) ==
    IF pp.caching /\ Unread(pp)
    THEN [pp EXCEPT !.CachedTokens = Splice(@, pp.CachedLexPos, pp.CachedLexPos, toks)]
    ELSE [pp EXCEPT !.lexers = toks \o @]

EnableBacktrackAtThisPos(pp) ==
    [pp EXCEPT !.BacktrackPositions = Append(@, pp.CachedLexPos), !.caching = TRUE]

Popped(positions) == SubSeq(positions, 1, Len(positions) - 1)

\* Mutant: what was read is dropped, although an outer trial may come back to it.
CommitAndDrop(pp) ==
    [pp EXCEPT !.BacktrackPositions = Popped(@), !.CachedLexPos = 0,
               !.CachedTokens = SubSeq(@, pp.CachedLexPos + 1, Len(@))]

CommitBacktrackedTokens(pp) == [pp EXCEPT !.BacktrackPositions = Popped(@)]

\* Mutant: the position stays on the stack.
BacktrackKeeps(pp) == [pp EXCEPT !.CachedLexPos = LastBacktrack(pp)]

Backtrack(pp) ==
    [pp EXCEPT !.CachedLexPos = LastBacktrack(pp), !.BacktrackPositions = Popped(@)]

RevertCachedTokensAsserts(pp, n) ==
    isBacktrackEnabled(pp) /\ pp.CachedLexPos - n >= LastBacktrack(pp)

RevertCachedTokens(pp, n) == [pp EXCEPT !.CachedLexPos = @ - n]

\* Where an annotation that begins at position `first' may replace tokens:
\* the search runs backwards from the most recent token.
Begins(pp, first) == {i \in 1..pp.CachedLexPos : pp.CachedTokens[i].first = first}

Nearest(is) == CHOOSE i \in is : \A j \in is : j <= i

AnnotateCachedTokensAsserts(pp, tok) ==
    (pp.CachedLexPos # 0 /\ isBacktrackEnabled(pp)) =>
        /\ pp.CachedTokens[pp.CachedLexPos].last = tok.last
        /\ Begins(pp, tok.first) # {} =>
               LastBacktrack(pp) <= Nearest(Begins(pp, tok.first))

\* AnnotateCachedTokens and AnnotatePreviousCachedTokens.
AnnotateCachedTokens(pp, tok) ==
    LET i == Nearest(Begins(pp, tok.first))
    IN IF pp.CachedLexPos # 0 /\ isBacktrackEnabled(pp) /\ Begins(pp, tok.first) # {}
       THEN [pp EXCEPT !.CachedTokens = Splice(@, i - 1, pp.CachedLexPos, <<tok>>),
                       !.CachedLexPos = i]
       ELSE pp

\* TypoCorrectToken (and ReplaceLastTokenWithAnnotation).
TypoCorrectToken(pp, tok) ==
    IF pp.CachedLexPos # 0 /\ isBacktrackEnabled(pp)
    THEN [pp EXCEPT !.CachedTokens[pp.CachedLexPos] = tok]
    ELSE pp

IsPreviousCachedToken(pp, tok) ==
    /\ pp.CachedLexPos # 0
    /\ pp.CachedTokens[pp.CachedLexPos].kind = tok.kind
    /\ pp.CachedTokens[pp.CachedLexPos].first = tok.first

ReplacePreviousCachedTokenAsserts(pp) == pp.CachedLexPos # 0

ReplacePreviousCachedToken(pp, toks) ==
    [pp EXCEPT !.CachedTokens = Splice(@, pp.CachedLexPos - 1, pp.CachedLexPos, toks),
               !.CachedLexPos = @ + Len(toks) - 1]

=============================================================================
