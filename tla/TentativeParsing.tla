-------------------------- MODULE TentativeParsing --------------------------
(***************************************************************************)
(* The parser reads tokens through the preprocessor's cache: it holds one  *)
(* current token, looks ahead, opens trials (TentativeParsingAction) that  *)
(* are committed or reverted, nests them, and in between annotates, splits *)
(* and puts back tokens.                                                   *)
(*                                                                         *)
(* External: which of these the grammar asks for, and when.  The parser of *)
(* this model may do any of them at any time, within the rules it keeps:   *)
(* it does not read past the end of the file, and it merges or splits only *)
(* tokens it has read since the innermost trial began (it annotates the    *)
(* token a trial starts at before it opens the trial).                     *)
(***************************************************************************)
EXTENDS TokenCaching

CONSTANTS
    Source,             \* the tokens of the file, the last one is its end
    MaxTrials,          \* bound: trials that are open at a time
    MaxAhead,           \* bound: how far the parser looks ahead
    MaxCached,          \* bound: cached tokens when the parser puts one back
    PutsBackInTrials    \* the parser also puts back tokens within trials

VARIABLES
    pp,             \* the preprocessor
    Tok,            \* the parser's current token
    PrevToks,       \* PrevTok of every open TentativeParsingAction
    assertsHold     \* no assertion of the preprocessor has failed

vars == <<pp, Tok, PrevToks, assertsHold>>

Kind == {"name", "op", "eq", "greater", "greatergreater", "greaterequal", "annot", "eof"}
End == Source[Len(Source)].last
Token == [first : 1..End, last : 1..End, kind : Kind]

\* Consecutive tokens stand for consecutive text: nothing is missing between
\* them and nothing is there twice.
Adjacent(s) == \A i \in 1..(Len(s) - 1) : s[i + 1].first = s[i].last + 1

ASSUME SourceIsAFile ==
    /\ Source \in Seq(Token) /\ Len(Source) > 1
    /\ Adjacent(Source)
    /\ \A i \in 1..Len(Source) :
          /\ Source[i].first <= Source[i].last
          /\ (Source[i].kind = "eof") <=> (Source[i].last = End)
          /\ (Source[i].kind \in {"greatergreater", "greaterequal"})
                => (Source[i].first < Source[i].last)

ASSUME BoundsAreNumbers ==
    /\ MaxTrials \in Nat /\ MaxAhead \in Nat /\ MaxCached \in Nat
    /\ PutsBackInTrials \in BOOLEAN

\* The parser has its first token.
Init ==
    /\ pp = Lex(Opened(Source))
    /\ Tok = LexResult(Opened(Source))
    /\ PrevToks = << >>
    /\ assertsHold = TRUE

AtEnd == Tok.kind = "eof"
InTrial == isBacktrackEnabled(pp)

\* A call of the preprocessor: an assertion that fails ends the program.
Call(asserts, newpp, newTok) ==
    /\ assertsHold
    /\ assertsHold' = asserts
    /\ pp' = IF asserts THEN newpp ELSE pp
    /\ Tok' = IF asserts THEN newTok ELSE Tok

\* ConsumeToken, and Consume...Token for special tokens.
Consume ==
    /\ ~AtEnd
    /\ Call(TRUE, Lex(pp), LexResult(pp))
    /\ UNCHANGED PrevToks

\* NextToken and GetLookAheadToken.
Look(n) ==
    /\ ~AtEnd
    /\ Missing(pp, n) <= Len(pp.lexers)
    /\ Call(TRUE, LookAhead(pp, n), Tok)
    /\ UNCHANGED PrevToks

\* TentativeParsingAction: constructor, Commit and Revert.
Begin ==
    /\ Len(PrevToks) < MaxTrials
    /\ Call(TRUE, EnableBacktrackAtThisPos(pp), Tok)
    /\ PrevToks' = Append(PrevToks, Tok)

Commit ==
    /\ PrevToks # << >>
    /\ Call(isBacktrackEnabled(pp), CommitBacktrackedTokens(pp), Tok)
    /\ PrevToks' = Popped(PrevToks)

Revert ==
    /\ PrevToks # << >>
    /\ Call(isBacktrackEnabled(pp), Backtrack(pp), PrevToks[Len(PrevToks)])
    /\ PrevToks' = Popped(PrevToks)

\* Tokens read since the innermost trial began.
ReadInTrial == (LastBacktrack(pp) + 1)..pp.CachedLexPos

\* Where the tokens the parser summarises may begin.
Beginnings ==
    IF InTrial
    THEN {pp.CachedTokens[i].first : i \in {j \in ReadInTrial :
                                    pp.CachedTokens[j].kind \in {"name", "annot"}}}
    ELSE {Source[i].first : i \in 1..Len(Source)}

\* The current token, or the tokens up to it, become an annotation.
Annotate ==
    /\ Tok.kind = "name"
    /\ \E first \in Beginnings \cup {Tok.first} :
          /\ first <= Tok.first
          /\ LET annot == [first |-> first, last |-> Tok.last, kind |-> "annot"]
             IN Call(AnnotateCachedTokensAsserts(pp, annot),
                     AnnotateCachedTokens(pp, annot), annot)
    /\ UNCHANGED PrevToks

\* AnnotateScopeToken and AnnotateExistingDecltypeSpecifier: one token too
\* many was read; it is handed back and the ones before it become an annotation.
AnnotateBefore ==
    /\ \E first \in Beginnings :
          /\ first < Tok.first
          /\ LET annot == [first |-> first, last |-> Tok.first - 1, kind |-> "annot"]
                 unread == IF InTrial THEN RevertCachedTokens(pp, 1) ELSE EnterToken(pp, Tok)
                 asserts == InTrial => RevertCachedTokensAsserts(pp, 1)
             IN /\ InTrial => pp.CachedLexPos \in ReadInTrial
                /\ ~InTrial => Len(pp.CachedTokens) < MaxCached
                /\ Call(asserts /\ AnnotateCachedTokensAsserts(unread, annot),
                        AnnotateCachedTokens(unread, annot), annot)
    /\ UNCHANGED PrevToks

\* Mutant: AnnotateScopeToken as if the annotation were always new.
ReadScopeAndAnnotate ==
    /\ Tok.kind = "annot"
    /\ LET read == Lex(pp)
           unread == RevertCachedTokens(read, 1)
       IN IF InTrial
          THEN Call(AnnotateCachedTokensAsserts(unread, Tok),
                    AnnotateCachedTokens(unread, Tok), Tok)
          ELSE /\ Len(pp.CachedTokens) < MaxCached
               /\ Call(TRUE, EnterToken(read, LexResult(pp)), Tok)
    /\ UNCHANGED PrevToks

\* AnnotateScopeToken when the scope was an annotation already: it is
\* consumed, and made the current token again.
ReadScopeAgain ==
    /\ Tok.kind = "annot"
    /\ LET read == Lex(pp)
       IN IF InTrial
          THEN Call(RevertCachedTokensAsserts(read, 1), RevertCachedTokens(read, 1), Tok)
          ELSE /\ Len(pp.CachedTokens) < MaxCached
               /\ Call(TRUE, EnterToken(read, LexResult(pp)), Tok)
    /\ UNCHANGED PrevToks

\* A name is corrected to a keyword.
CorrectTypo ==
    /\ Tok.kind = "name"
    /\ LET keyword == [Tok EXCEPT !.kind = "op"]
       IN Call(TRUE, TypoCorrectToken(pp, keyword), keyword)
    /\ UNCHANGED PrevToks

\* ParseGreaterThanInTemplateList on a token that only begins with '>': it is
\* split into '>' and the rest, and '>=' followed by '=' into '>' and '=='.
RestKind(merge) ==
    CASE Tok.kind = "greatergreater" -> "greater"
      [] Tok.kind = "greaterequal" /\ merge -> "op"
      [] Tok.kind = "greaterequal" /\ ~merge -> "eq"

SplitGreater(ConsumeLastToken) ==
    /\ Tok.kind \in {"greatergreater", "greaterequal"}
    /\ InTrial => pp.CachedLexPos \in ReadInTrial
    /\ LET looked == LookAhead(pp, 0)
           next == LookAheadResult(pp, 0)
           merge == Tok.kind = "greaterequal" /\ next.kind = "eq"
           CachingTokens == IsPreviousCachedToken(looked, Tok)
           read == IF merge THEN Lex(looked) ELSE looked
           Greater == [first |-> Tok.first, last |-> Tok.first, kind |-> "greater"]
           rest == [first |-> Tok.first + 1,
                    last |-> IF merge THEN next.last ELSE Tok.last,
                    kind |-> RestKind(merge)]
           dropped == IF merge THEN ReplacePreviousCachedToken(read, << >>) ELSE read
           updated == IF CachingTokens
                      THEN ReplacePreviousCachedToken(
                             dropped, IF ConsumeLastToken THEN <<Greater, rest>> ELSE <<Greater>>)
                      ELSE read
       IN IF CachingTokens /\ ~(/\ ReplacePreviousCachedTokenAsserts(read)
                                /\ ReplacePreviousCachedTokenAsserts(dropped))
          THEN Call(FALSE, pp, Tok)
          ELSE IF ConsumeLastToken THEN Call(TRUE, updated, rest)
                                   ELSE Call(TRUE, EnterToken(updated, rest), Greater)
    /\ UNCHANGED PrevToks

\* Putting back what was just consumed, as the parser does to recover from
\* errors and to parse some tokens later.
MayPutBack == ~AtEnd /\ (InTrial => PutsBackInTrials) /\ Len(pp.CachedTokens) < MaxCached

\* An operator was consumed, but it is not one: the token after it is entered
\* again and the operator is made the current token.
PutBack ==
    /\ MayPutBack
    /\ Tok.kind = "op"
    /\ Call(TRUE, EnterToken(Lex(pp), LexResult(pp)), Tok)
    /\ UNCHANGED PrevToks

\* UnconsumeToken(Consumed), where Consumed was the current token.
UnconsumeToken ==
    /\ MayPutBack
    /\ LET entered == EnterToken(Lex(pp), Tok)
       IN Call(TRUE, EnterToken(Lex(entered), LexResult(pp)), LexResult(entered))
    /\ UNCHANGED PrevToks

\* UnannotatedTentativeParsingAction::RevertAnnotations, once the trial is
\* reverted: the tokens after a comma are skipped and entered again as a
\* stream, as they were before the trial, and the comma is made current.
RevertAnnotations ==
    /\ MayPutBack
    /\ Tok.kind = "op"
    /\ LET one == Lex(pp)
           two == Lex(one)
       IN \/ Call(TRUE, EnterTokenStream(one, <<LexResult(pp)>>), Tok)
          \/ /\ LexResult(pp).kind # "eof"
             /\ Call(TRUE, EnterTokenStream(two, <<LexResult(pp), LexResult(one)>>), Tok)
    /\ UNCHANGED PrevToks

Next ==
    \/ Consume
    \/ \E n \in 0..MaxAhead : Look(n)
    \/ Begin \/ Commit \/ Revert
    \/ Annotate \/ AnnotateBefore \/ ReadScopeAgain \/ CorrectTypo
    \/ \E last \in BOOLEAN : SplitGreater(last)
    \/ PutBack \/ UnconsumeToken \/ RevertAnnotations

Spec == Init /\ [][Next]_vars

-----------------------------------------------------------------------------
\* What will be read from a position of the cache on.
From(p) == SubSeq(pp.CachedTokens, p + 1, Len(pp.CachedTokens)) \o pp.lexers

Ahead == IF pp.caching THEN From(pp.CachedLexPos) ELSE pp.lexers

\* From a token and what follows it the rest of the file can be read.
Whole(t, s) ==
    LET all == <<t>> \o s IN Adjacent(all) /\ all[Len(all)].last = End

TypeOK ==
    /\ pp \in [CachedTokens : Seq(Token), CachedLexPos : Nat, BacktrackPositions : Seq(Nat),
               caching : BOOLEAN, lexers : Seq(Token)]
    /\ Tok \in Token
    /\ PrevToks \in Seq(Token) /\ Len(PrevToks) = Len(pp.BacktrackPositions)
    /\ assertsHold \in BOOLEAN

\* No assertion of the layer fails, whatever the parser does within its rules:
\* it hands back no more than it read since the trial began
\* (Preprocessor.h:1485), an annotation ends at the most recent cached token
\* and no saved position points inside it (PPCaching.cpp:116).
NoAssertFails == assertsHold

\* The parser loses no token and reads none twice: its current token, the
\* unread cached tokens and what the lexers still have are the rest of the
\* file (PPCaching.cpp:48, and everything that inserts, erases or replaces).
NothingIsSkipped == Whole(Tok, Ahead)

\* `a subsequent Backtrack() call will make the Preprocessor re-lex the same
\* tokens' (PPCaching.cpp:17): for every open trial, the token it began at and
\* what is read from its position on are the rest of the file, whatever was
\* annotated, corrected, split or looked at since, in this or an inner trial.
RelexesTheSame ==
    \A k \in 1..Len(PrevToks) : Whole(PrevToks[k], From(pp.BacktrackPositions[k]))

\* The cache is a TokenStream: lookahead and putting back are invisible,
\* consuming takes exactly the next token, a revert restores the token and
\* the stream of its trial with the annotations made since, and nothing that
\* is done after a trial began, except those, can change what it restores.
Contract == INSTANCE TokenStream WITH
    tok <- Tok,
    ahead <- Ahead,
    trials <- [k \in 1..Len(PrevToks) |->
                 [tok |-> PrevToks[k], ahead |-> From(pp.BacktrackPositions[k])]]
KeepsStream == Contract!Spec

=============================================================================
