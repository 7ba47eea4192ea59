------------------------ MODULE TentativeParsingProofs ------------------------
(***************************************************************************)
(* TentativeParsing keeps its invariants for every file and every bound,   *)
(* if the parser puts no token back within trials.                         *)
(*                                                                         *)
(* The inductive invariant says of the cache, entry by entry, what the     *)
(* properties say of the sequences read from it (TokenCachingProofs).      *)
(***************************************************************************)
EXTENDS TokenCachingProofs

IInv == Good(pp, Tok, PrevToks) /\ assertsHold = TRUE

\* What a step may do to the current token, to what is ahead of it and to what
\* the open trials remember: the actions of TokenStream.
Rewrites(x) == Remembered(pp', PrevToks') = Rewrite(Remembered(pp, PrevToks), x)

StreamStays ==
    /\ Tok' = Tok
    /\ Coming(pp') = Coming(pp)
    /\ Remembered(pp', PrevToks') = Remembered(pp, PrevToks)

StreamAdvances ==
    /\ Coming(pp) # << >>
    /\ Tok' = Head(Coming(pp))
    /\ Coming(pp') = Tail(Coming(pp))
    /\ Remembered(pp', PrevToks') = Remembered(pp, PrevToks)

StreamStarts ==
    /\ Tok' = Tok
    /\ Coming(pp') = Coming(pp)
    /\ Remembered(pp', PrevToks')
         = Append(Remembered(pp, PrevToks), [tok |-> Tok, ahead |-> Coming(pp)])

StreamKeeps ==
    /\ Remembered(pp, PrevToks) # << >>
    /\ Tok' = Tok
    /\ Coming(pp') = Coming(pp)
    /\ Remembered(pp', PrevToks') = Popped(Remembered(pp, PrevToks))

StreamReturns ==
    LET trials == Remembered(pp, PrevToks)
    IN /\ trials # << >>
       /\ Tok' = trials[Len(trials)].tok
       /\ Coming(pp') = trials[Len(trials)].ahead
       /\ Remembered(pp', PrevToks') = Popped(trials)

StreamAnnotates ==
    /\ Tok'.first <= Tok.first /\ Tok'.last = Tok.last
    /\ Coming(pp') = Coming(pp)
    /\ Rewrites(<<Tok'>>)

StreamAnnotatesBefore ==
    /\ Tok'.first < Tok.first /\ Tok'.last = Tok.first - 1
    /\ Coming(pp') # << >> /\ Tail(Coming(pp')) = Coming(pp)
    /\ Head(Coming(pp')).first = Tok.first /\ Head(Coming(pp')).last = Tok.last
    /\ Rewrites(<<Tok'>>)

Splits(left, right, after) ==
    /\ left.first = Tok.first /\ right.first = left.last + 1
    /\ \/ right.last = Tok.last /\ after = Coming(pp)
       \/ /\ Coming(pp) # << >> /\ right.last = Head(Coming(pp)).last
          /\ after = Tail(Coming(pp))
    /\ Rewrites(<<left, right>>)

StreamSplits ==
    \/ /\ Coming(pp') # << >>
       /\ Splits(Tok', Head(Coming(pp')), Tail(Coming(pp')))
    \/ /\ Tok'.first > Tok.first
       /\ Splits([first |-> Tok.first, last |-> Tok'.first - 1, kind |-> "greater"],
                 Tok', Coming(pp'))

StreamMoves ==
    \/ StreamStays \/ StreamAdvances \/ StreamStarts \/ StreamKeeps \/ StreamReturns
    \/ StreamAnnotates \/ StreamAnnotatesBefore \/ StreamSplits

\* The parser has its first token and the lexers have the rest of the file.
LEMMA InitGood == Init => IInv
<1> SUFFICES ASSUME Init PROVE IInv
  OBVIOUS
<1> DEFINE l == Tail(Source)
           t == Source[1]
<1>1. Source \in Seq(GoodToken) /\ Len(Source) \in Nat /\ Len(Source) > 1
  <2>1. Source \in Seq(Token) /\ Len(Source) \in Nat /\ Len(Source) > 1
    BY SourceIsAFile, LenProperties
  <2>2. ASSUME NEW i \in 1..Len(Source) PROVE Source[i] \in GoodToken
    <3>1. Source[i] \in Token
      BY <2>1, ElementOfSeq
    <3> QED BY <3>1, SourceIsAFile DEF GoodToken
  <2>3. \A i \in 1..Len(Source) : Source[i] \in GoodToken
    BY <2>2
  <2>4. Source = [i \in 1..Len(Source) |-> Source[i]]
    BY <2>1
  <2> QED BY <2>1, <2>3, <2>4
<1>2. /\ l \in Seq(GoodToken) /\ Len(l) = Len(Source) - 1 /\ t \in GoodToken
      /\ \A i \in 1..(Len(Source) - 1) : l[i] = Source[i + 1]
  <2>1. Source # << >>
    BY <1>1
  <2> QED BY <2>1, <1>1, HeadTailProperties, ElementOfSeq
<1>3. /\ Tok = t /\ PrevToks = << >> /\ assertsHold = TRUE
      /\ pp \in PPType /\ pp.CachedTokens = << >> /\ pp.CachedLexPos = 0
      /\ pp.BacktrackPositions = << >> /\ pp.caching = FALSE /\ pp.lexers = l
  <2> DEFINE q == Opened(Source)
  <2>0. << >> \in Seq(GoodToken) /\ << >> \in Seq(Nat) /\ l \in Seq(GoodToken)
    BY <1>2
  <2>1. /\ q \in PPType /\ q.CachedTokens = << >> /\ q.CachedLexPos = 0
        /\ q.BacktrackPositions = << >> /\ q.caching = FALSE /\ q.lexers = Source
    BY <2>0, <1>1 DEF Opened, PPType
  <2>2. Init => pp = Lex(q) /\ Tok = LexResult(q) /\ PrevToks = << >> /\ assertsHold = TRUE
    BY DEF Init
  <2> HIDE DEF q, l
  <2>3. Lex(q) = [q EXCEPT !.lexers = l]
    BY <2>1 DEF Lex, l
  <2>4. LexResult(q) = t
    BY <2>1 DEF LexResult
  <2>5. pp = [q EXCEPT !.lexers = l]
    BY <2>2, <2>3
  <2>6. /\ pp \in PPType /\ pp.CachedTokens = q.CachedTokens /\ pp.CachedLexPos = q.CachedLexPos
        /\ pp.BacktrackPositions = q.BacktrackPositions /\ pp.caching = q.caching
        /\ pp.lexers = l
    BY <2>0, <2>1, <2>5 DEF PPType
  <2> QED BY <2>1, <2>2, <2>4, <2>6
<1> HIDE DEF l, t
<1>4. pp \in PPType /\ Len(<< >>) = 0
  BY <1>3
<1>5. /\ All(pp) \in Seq(GoodToken) /\ Len(All(pp)) = Len(l)
      /\ \A i \in 1..Len(l) : All(pp)[i] = l[i]
  <2>1. /\ All(pp) \in Seq(GoodToken) /\ Len(All(pp)) = Len(pp.CachedTokens) + Len(pp.lexers)
        /\ \A i \in 1..Len(pp.lexers), j \in Nat :
              j = Len(pp.CachedTokens) + i => All(pp)[j] = pp.lexers[i]
    BY <1>4, AllProperties
  <2>2. Len(pp.CachedTokens) = 0 /\ pp.lexers = l /\ Len(l) \in Nat
    BY <1>2, <1>3, <1>4, LenProperties
  <2>3. ASSUME NEW i \in 1..Len(l) PROVE All(pp)[i] = l[i]
    <3>1. i \in Nat /\ i = 0 + i
      OBVIOUS
    <3> QED BY <3>1, <2>1, <2>2
  <2> QED BY <2>1, <2>2, <2>3
<1>6. Follows(All(pp), t.last, 0)
  <2> DEFINE s == All(pp)
             n == Len(Source)
  <2>0. s = All(pp)
    OBVIOUS
  <2> HIDE DEF s
  <2>1. n \in Nat /\ n > 1 /\ Len(s) = n - 1 /\ \A i \in 1..(n - 1) : s[i] = Source[i + 1]
    BY <2>0, <1>1, <1>2, <1>5
  <2>2. \A i \in 1..(n - 1) : Source[i + 1].first = Source[i].last + 1
    BY SourceIsAFile DEF Adjacent
  <2>3. Source[n].last = End
    BY DEF End
  <2> HIDE DEF n
  <2>4. s[1].first = t.last + 1 /\ s[Len(s)].last = End
    <3>1. 1 \in 1..(n - 1) /\ n - 1 \in 1..(n - 1) /\ 1 + 1 = 2 /\ n - 1 + 1 = n
      BY <2>1
    <3>2. s[1] = Source[2] /\ s[n - 1] = Source[n] /\ Source[2].first = Source[1].last + 1
      BY <3>1, <2>1, <2>2
    <3> QED BY <3>2, <2>1, <2>3 DEF t
  <2>5. ASSUME NEW i \in 1..(Len(s) - 1) PROVE s[i + 1].first = s[i].last + 1
    <3>1. i \in 1..(n - 1) /\ i + 1 \in 1..(n - 1)
      BY <2>1
    <3> QED BY <3>1, <2>1, <2>2
  <2>6. 0 <= Len(s) /\ 0 # Len(s) /\ 0 + 1 = 1
    BY <2>1
  <2>7. \A i \in (0 + 1)..(Len(s) - 1) : s[i + 1].first = s[i].last + 1
    BY <2>5, <2>6
  <2>8. Follows(s, t.last, 0)
    BY <2>4, <2>6, <2>7 DEF Follows
  <2> QED BY <2>0, <2>8
<1>7. Cached(pp)
  BY <1>3, <1>4 DEF Cached
<1>8. Current(All(pp), 0, << >>, t) /\ Trials(All(pp), << >>, << >>)
  BY <1>2, <1>4, <1>6 DEF Current, Trials
<1> QED BY <1>3, <1>7, <1>8 DEF IInv, Good

\* The next token is read.
LEMMA ConsumeKeeps == IInv /\ Consume => IInv' /\ StreamAdvances
<1> SUFFICES ASSUME IInv, Consume PROVE IInv' /\ StreamAdvances
  OBVIOUS
<1>1. Good(pp, Tok, PrevToks) /\ Tok.last # End
  BY NotAtEnd DEF IInv, Good, Current, Consume, AtEnd
<1>2. Good(Lex(pp), LexResult(pp), PrevToks)
  BY <1>1, GoodLex
<1>3. /\ Coming(pp) # << >> /\ LexResult(pp) = Head(Coming(pp))
      /\ Coming(Lex(pp)) = Tail(Coming(pp))
      /\ Remembered(Lex(pp), PrevToks) = Remembered(pp, PrevToks)
  BY <1>1, StreamLex
<1>4. pp' = Lex(pp) /\ Tok' = LexResult(pp) /\ PrevToks' = PrevToks /\ assertsHold' = TRUE
  BY DEF Consume, Call
<1> QED BY <1>2, <1>3, <1>4 DEF IInv, StreamAdvances

\* The parser looks ahead.
LEMMA LookKeeps ==
  ASSUME NEW n \in 0..MaxAhead PROVE IInv /\ Look(n) => IInv' /\ StreamStays
<1> SUFFICES ASSUME IInv, Look(n) PROVE IInv' /\ StreamStays
  OBVIOUS
<1>1. n \in Nat
  BY BoundsAreNumbers
<1>2. Good(LookAhead(pp, n), Tok, PrevToks)
  BY <1>1, GoodLook DEF IInv, Look
<1>3. /\ Coming(LookAhead(pp, n)) = Coming(pp)
      /\ Remembered(LookAhead(pp, n), PrevToks) = Remembered(pp, PrevToks)
  BY <1>1, StreamLook DEF IInv, Good, Look
<1>4. pp' = LookAhead(pp, n) /\ Tok' = Tok /\ PrevToks' = PrevToks /\ assertsHold' = TRUE
  BY DEF Look, Call
<1> QED BY <1>2, <1>3, <1>4 DEF IInv, StreamStays

\* A trial begins: what is remembered of it is what is true of the current token.
LEMMA BeginKeeps == IInv /\ Begin => IInv' /\ StreamStarts
<1> SUFFICES ASSUME IInv, Begin PROVE IInv' /\ StreamStarts
  OBVIOUS
<1> DEFINE s == All(pp)
           p == pp.CachedLexPos
           back == pp.BacktrackPositions
           back2 == Append(back, p)
           ts2 == Append(PrevToks, Tok)
           r == EnableBacktrackAtThisPos(pp)
<1>1. /\ Cached(pp) /\ pp \in PPType /\ p \in Nat /\ back \in Seq(Nat) /\ Len(back) \in Nat
      /\ Current(s, p, back, Tok) /\ Trials(s, back, PrevToks)
  BY LenProperties DEF IInv, Good, Cached, PPType
<1>2. /\ PrevToks \in Seq(GoodToken) /\ Len(PrevToks) = Len(back) /\ Tok \in GoodToken
  BY <1>1 DEF Trials, Current
<1>3. /\ back2 \in Seq(Nat) /\ Len(back2) = Len(back) + 1
      /\ \A k \in 1..Len(back) : back2[k] = back[k]
      /\ back2[Len(back) + 1] = p
  BY <1>1, AppendProperties
<1>4. /\ ts2 \in Seq(GoodToken) /\ Len(ts2) = Len(back) + 1
      /\ \A k \in 1..Len(back) : ts2[k] = PrevToks[k]
      /\ ts2[Len(back) + 1] = Tok
  BY <1>2, AppendProperties
<1>5. r = [pp EXCEPT !.BacktrackPositions = back2, !.caching = TRUE]
  BY DEF EnableBacktrackAtThisPos
<1> HIDE DEF r, back2, ts2
<1>6. /\ r \in PPType /\ r.CachedTokens = pp.CachedTokens /\ r.CachedLexPos = p
      /\ r.lexers = pp.lexers /\ r.BacktrackPositions = back2 /\ r.caching = TRUE
  BY <1>1, <1>3, <1>5 DEF PPType
<1>7. All(r) = s
  BY <1>6 DEF All
<1>8. /\ \A k \in 1..Len(back) : back[k] <= p
      /\ \A k \in 1..Len(back) : \A j \in 1..k : back[j] <= back[k]
  BY <1>1 DEF Cached
<1> HIDE DEF s, p, back
<1>9. ASSUME NEW k \in 1..Len(back2) PROVE k \in 1..Len(back) \/ k = Len(back) + 1
  BY <1>1, <1>3
<1>10. ASSUME NEW k \in 1..Len(back2)
       PROVE  back2[k] <= p /\ \A j \in 1..k : back2[j] <= back2[k]
  <2>0. p <= p
    BY <1>1
  <2>1. \A j \in 1..Len(back2) : back2[j] <= p
    BY <2>0, <1>3, <1>8, <1>9
  <2>2. CASE k \in 1..Len(back)
    <3>1. \A j \in 1..k : j \in 1..Len(back)
      BY <2>2, <1>1
    <3> QED BY <3>1, <2>1, <2>2, <1>3, <1>8
  <2>3. CASE k = Len(back) + 1
    <3>1. \A j \in 1..k : j \in 1..Len(back2)
      BY <2>3, <1>1, <1>3
    <3> QED BY <3>1, <2>1, <2>3, <1>3
  <2> QED BY <2>2, <2>3, <1>9
<1>11. Cached(r)
  <2>1. r.CachedLexPos <= Len(r.CachedTokens)
    BY <1>1, <1>6 DEF Cached, p
  <2> QED BY <2>1, <1>6, <1>10 DEF Cached
<1>12. Current(s, p, back2, Tok)
  <2>1. ASSUME NEW k \in 1..Len(back2), back2[k] < p PROVE Same(s[p], Tok)
    <3>1. k # Len(back) + 1
      BY <2>1, <1>1, <1>3
    <3> QED BY <3>1, <2>1, <1>1, <1>3, <1>9 DEF Current
  <2> QED BY <2>1, <1>1 DEF Current
<1>13. Trials(s, back2, ts2)
  <2>1. ASSUME NEW k \in 1..Len(back2)
        PROVE  /\ Follows(s, ts2[k].last, back2[k])
               /\ (ts2[k].kind = "name" /\ back2[k] # 0) => Same(s[back2[k]], ts2[k])
               /\ \A j \in 1..k : back2[j] < back2[k] => Same(s[back2[k]], ts2[k])
    <3>1. CASE k \in 1..Len(back)
      <4>1. back2[k] = back[k] /\ ts2[k] = PrevToks[k] /\ \A j \in 1..k : back2[j] = back[j]
        <5>1. \A j \in 1..k : j \in 1..Len(back)
          BY <3>1, <1>1
        <5> QED BY <5>1, <3>1, <1>3, <1>4
      <4> QED BY <4>1, <3>1, <1>1 DEF Trials
    <3>2. CASE k = Len(back) + 1
      <4>1. back2[k] = p /\ ts2[k] = Tok
        BY <3>2, <1>3, <1>4
      <4>2. \A j \in 1..k : j \in 1..Len(back2)
        BY <3>2, <1>1, <1>3
      <4> QED BY <4>1, <4>2, <1>12 DEF Current
    <3> QED BY <3>1, <3>2, <1>9
  <2> QED BY <2>1, <1>3, <1>4 DEF Trials
<1>14. Good(r, Tok, ts2)
  BY <1>6, <1>7, <1>11, <1>12, <1>13 DEF Good
<1>15. /\ Coming(r) = Coming(pp)
       /\ Remembered(r, ts2)
            = Append(Remembered(pp, PrevToks), [tok |-> Tok, ahead |-> Coming(pp)])
  <2>1. s \in Seq(GoodToken)
    BY <1>1, AllProperties DEF s
  <2>2. Trials(s, Append(back, p), Append(PrevToks, Tok)) /\ back \in Seq(Nat)
    BY <1>1, <1>13 DEF back2, ts2, back
  <2>3. Memory(s, Append(back, p), Append(PrevToks, Tok))
          = Append(Memory(s, back, PrevToks), [tok |-> Tok, ahead |-> Rest(s, p)])
    BY <2>1, <2>2, <1>1, <1>2, MemoryPushed DEF back
  <2>4. /\ Coming(r) = Rest(s, p) /\ Coming(pp) = Rest(s, p)
        /\ Remembered(r, ts2) = Memory(s, back2, ts2)
        /\ Remembered(pp, PrevToks) = Memory(s, back, PrevToks)
    BY <1>6, <1>7 DEF Coming, Remembered, s, p, back
  <2> QED BY <2>3, <2>4 DEF back2, ts2
<1>16. pp' = r /\ Tok' = Tok /\ PrevToks' = ts2 /\ assertsHold' = TRUE
  BY DEF Begin, Call, r, ts2
<1> QED BY <1>14, <1>15, <1>16 DEF IInv, StreamStarts

\* A trial is committed.
LEMMA CommitKeeps == IInv /\ Commit => IInv' /\ StreamKeeps
<1> SUFFICES ASSUME IInv, Commit PROVE IInv' /\ StreamKeeps
  OBVIOUS
<1>1. Good(pp, Tok, PrevToks) /\ PrevToks # << >> /\ assertsHold = TRUE
  BY DEF IInv, Commit
<1>2. isBacktrackEnabled(pp) /\ Good(CommitBacktrackedTokens(pp), Tok, Popped(PrevToks))
  BY <1>1, TrialsPopped
<1>3. /\ Remembered(pp, PrevToks) # << >>
      /\ Coming(CommitBacktrackedTokens(pp)) = Coming(pp)
      /\ Remembered(CommitBacktrackedTokens(pp), Popped(PrevToks))
           = Popped(Remembered(pp, PrevToks))
  BY <1>1, StreamPopped
<1>4. /\ pp' = CommitBacktrackedTokens(pp) /\ Tok' = Tok /\ PrevToks' = Popped(PrevToks)
      /\ assertsHold' = TRUE
  <2>1. Call(isBacktrackEnabled(pp), CommitBacktrackedTokens(pp), Tok)
    BY DEF Commit
  <2>2. /\ pp' = CommitBacktrackedTokens(pp) /\ Tok' = Tok
        /\ assertsHold' = isBacktrackEnabled(pp)
    BY <2>1, <1>2 DEF Call
  <2>3. isBacktrackEnabled(pp) = TRUE
    BY <1>2 DEF isBacktrackEnabled
  <2> QED BY <2>2, <2>3 DEF Commit
<1> QED BY <1>2, <1>3, <1>4 DEF IInv, StreamKeeps

\* A trial is reverted.
LEMMA RevertKeeps == IInv /\ Revert => IInv' /\ StreamReturns
<1> SUFFICES ASSUME IInv, Revert PROVE IInv' /\ StreamReturns
  OBVIOUS
<1> DEFINE t == PrevToks[Len(PrevToks)]
           m == Remembered(pp, PrevToks)
<1>1. Good(pp, Tok, PrevToks) /\ PrevToks # << >> /\ assertsHold = TRUE
  BY DEF IInv, Revert
<1>2. isBacktrackEnabled(pp) /\ Good(Backtrack(pp), t, Popped(PrevToks))
  BY <1>1, TrialsPopped
<1>3. /\ m # << >> /\ t = m[Len(m)].tok /\ Coming(Backtrack(pp)) = m[Len(m)].ahead
      /\ Remembered(Backtrack(pp), Popped(PrevToks)) = Popped(m)
  BY <1>1, StreamPopped
<1> HIDE DEF t, m
<1>4. pp' = Backtrack(pp) /\ Tok' = t /\ PrevToks' = Popped(PrevToks) /\ assertsHold' = TRUE
  <2>1. Call(isBacktrackEnabled(pp), Backtrack(pp), t)
    BY DEF Revert, t
  <2>2. pp' = Backtrack(pp) /\ Tok' = t /\ assertsHold' = isBacktrackEnabled(pp)
    BY <2>1, <1>2 DEF Call
  <2>3. isBacktrackEnabled(pp) = TRUE
    BY <1>2 DEF isBacktrackEnabled
  <2> QED BY <2>2, <2>3 DEF Revert
<1> QED BY <1>2, <1>3, <1>4 DEF IInv, StreamReturns, m

\* Annotate: the tokens it replaces end at the current one.
LEMMA AnnotateKeeps == IInv /\ Annotate => IInv' /\ StreamAnnotates
<1> SUFFICES ASSUME IInv, Annotate PROVE IInv' /\ StreamAnnotates
  OBVIOUS
<1>1. /\ Cached(pp) /\ Trials(All(pp), pp.BacktrackPositions, PrevToks) /\ assertsHold = TRUE
      /\ Current(All(pp), pp.CachedLexPos, pp.BacktrackPositions, Tok)
      /\ Tok \in GoodToken /\ Tok.kind = "name" /\ Tok.last # End /\ UNCHANGED PrevToks
  BY NotAtEnd DEF IInv, Good, Current, Annotate
<1>2. PICK first \in Beginnings \cup {Tok.first} :
         /\ first <= Tok.first
         /\ LET annot == [first |-> first, last |-> Tok.last, kind |-> "annot"]
            IN Call(AnnotateCachedTokensAsserts(pp, annot),
                    AnnotateCachedTokens(pp, annot), annot)
  BY DEF Annotate
<1> DEFINE u == [first |-> first, last |-> Tok.last, kind |-> "annot"]
           p == pp.CachedLexPos
           c == pp.CachedTokens
           back == pp.BacktrackPositions
<1>3. /\ pp \in PPType /\ p \in Nat /\ c \in Seq(GoodToken) /\ p <= Len(c) /\ Len(c) \in Nat
  BY <1>1, LenProperties DEF Cached, PPType
<1>4. first \in 1..End
  <2>1. Tok.first \in 1..End
    BY <1>1, EndProperties
  <2>2. CASE InTrial /\ first \in Beginnings
    <3>1. PICK j \in ReadInTrial : first = c[j].first
      BY <2>2 DEF Beginnings
    <3>2. j \in 1..Len(c)
      <4>1. LastBacktrack(pp) \in 0..p
        BY <2>2, <1>1, InnermostIsLast DEF InTrial, isBacktrackEnabled
      <4> HIDE DEF p, c
      <4> QED BY <4>1, <1>3, <3>1 DEF ReadInTrial, p
    <3>3. c[j] \in GoodToken
      BY <3>2, <1>3, ElementOfSeq
    <3> QED BY <3>1, <3>3, EndProperties
  <2>3. CASE ~InTrial /\ first \in Beginnings
    <3>1. PICK i \in 1..Len(Source) : first = Source[i].first
      BY <2>3 DEF Beginnings
    <3>2. Source[i] \in Token
      BY SourceIsAFile, ElementOfSeq
    <3> QED BY <3>1, <3>2 DEF Token
  <2> QED BY <2>1, <2>2, <2>3, <1>2
<1>5. u \in GoodToken /\ u.first = first /\ u.last = Tok.last /\ u.kind = "annot"
  <2>1. Tok.last \in 1..End /\ Tok.first \in 1..End /\ Tok.first <= Tok.last /\ End \in Nat
    BY <1>1, EndProperties DEF GoodToken
  <2>2. first <= Tok.last
    BY <2>1, <1>2, <1>4
  <2>3. "annot" \in Kind
    BY DEF Kind
  <2> QED BY <2>1, <2>2, <2>3, <1>1, <1>4 DEF GoodToken, Token
<1>6. Follows(All(pp), u.last, p)
  BY <1>1, <1>5 DEF Current
<1> HIDE DEF u
<1> DEFINE r == AnnotateCachedTokens(pp, u)
<1>7. /\ AnnotateCachedTokensAsserts(pp, u) /\ Good(r, u, PrevToks)
      /\ Coming(r) = Coming(pp)
      /\ Remembered(r, PrevToks) = Rewrite(Remembered(pp, PrevToks), <<u>>)
  <2>1. CASE p = 0 \/ back = << >>
    <3>1. AnnotateCachedTokens(pp, u) = pp
      BY <2>1 DEF AnnotateCachedTokens, isBacktrackEnabled
    <3>2. AnnotateCachedTokensAsserts(pp, u)
      BY <2>1 DEF AnnotateCachedTokensAsserts, isBacktrackEnabled
    <3>3. \A k \in 1..Len(back) : ~(back[k] < p)
      <4>1. \A k \in 1..Len(back) : back[k] \in Nat
        BY <1>3, ElementOfSeq DEF PPType
      <4>2. back = << >> => Len(back) = 0
        OBVIOUS
      <4> HIDE DEF p, back
      <4> QED BY <4>1, <4>2, <2>1
    <3>4. Current(All(pp), p, back, u)
      BY <3>3, <1>5, <1>6 DEF Current
    <3>5. Remembered(pp, PrevToks) = Rewrite(Remembered(pp, PrevToks), <<u>>)
      BY <2>1, <1>1, <1>5, <1>6, StreamUntouched
    <3> QED BY <3>1, <3>2, <3>4, <3>5, <1>1 DEF Good
  <2>2. CASE p # 0 /\ back # << >>
    <3>1. p \in 1..p /\ p \in 1..Len(c)
      BY <1>3, <2>2
    <3>2. All(pp)[p] = c[p]
      BY <3>1, <1>3, AllProperties
    <3>3. Same(c[p], Tok)
      BY <3>2, <2>2, <1>1 DEF Current
    <3>4. c[p].first = Tok.first /\ c[p].last = u.last
      BY <3>3, <1>5 DEF Same
    <3>5. CASE first = Tok.first
      <4>1. p \in Begins(pp, u.first)
        BY <3>1, <3>4, <3>5, <1>5 DEF Begins
      <4>2. Same(u, c[p])
        BY <3>3, <3>5, <1>1, <1>5 DEF Same
      <4>3. AnnotateCachedTokensAsserts(pp, u) /\ Good(r, u, PrevToks)
        BY <4>1, <4>2, <3>4, <2>2, <1>1, <1>5, <1>6, GoodSummary
      <4>4. /\ Coming(r) = Coming(pp)
            /\ Remembered(r, PrevToks) = Rewrite(Remembered(pp, PrevToks), <<u>>)
        BY <4>1, <3>4, <2>2, <1>1, <1>5, <1>6, StreamSummary
      <4> QED BY <4>3, <4>4
    <3>6. CASE first \in Beginnings
      <4>1. PICK j \in ReadInTrial : first = c[j].first
        BY <3>6, <2>2 DEF Beginnings, InTrial, isBacktrackEnabled
      <4>2. LastBacktrack(pp) < j /\ j \in 1..p
        <5>1. LastBacktrack(pp) \in 0..p
          BY <2>2, <1>1, InnermostIsLast
        <5> HIDE DEF p
        <5> QED BY <5>1, <4>1, <1>3 DEF ReadInTrial, p
      <4>3. j \in Begins(pp, u.first)
        BY <4>1, <4>2, <1>5 DEF Begins
      <4>4. AnnotateCachedTokensAsserts(pp, u) /\ Good(r, u, PrevToks)
        BY <4>2, <4>3, <3>4, <2>2, <1>1, <1>5, <1>6, GoodSummary
      <4>5. /\ Coming(r) = Coming(pp)
            /\ Remembered(r, PrevToks) = Rewrite(Remembered(pp, PrevToks), <<u>>)
        BY <4>2, <4>3, <3>4, <2>2, <1>1, <1>5, <1>6, StreamSummary
      <4> QED BY <4>4, <4>5
    <3> QED BY <3>5, <3>6, <1>2
  <2> QED BY <2>1, <2>2
<1> HIDE DEF r
<1>8. pp' = r /\ Tok' = u /\ PrevToks' = PrevToks /\ assertsHold' = TRUE
  <2>1. Call(AnnotateCachedTokensAsserts(pp, u), r, u)
    BY <1>2 DEF u, r
  <2>2. AnnotateCachedTokensAsserts(pp, u) = TRUE
    BY <1>7 DEF AnnotateCachedTokensAsserts
  <2> QED BY <2>1, <2>2, <1>1 DEF Call
<1> QED BY <1>2, <1>5, <1>7, <1>8 DEF IInv, StreamAnnotates, Rewrites

\* AnnotateBefore: the token that was handed back follows the annotation.
LEMMA AnnotateBeforeKeeps == IInv /\ AnnotateBefore => IInv' /\ StreamAnnotatesBefore
<1> SUFFICES ASSUME IInv, AnnotateBefore PROVE IInv' /\ StreamAnnotatesBefore
  OBVIOUS
<1>1. /\ Cached(pp) /\ Trials(All(pp), pp.BacktrackPositions, PrevToks) /\ assertsHold = TRUE
      /\ Current(All(pp), pp.CachedLexPos, pp.BacktrackPositions, Tok)
      /\ Good(pp, Tok, PrevToks) /\ Tok \in GoodToken /\ UNCHANGED PrevToks
  BY DEF IInv, Good, Current, AnnotateBefore
<1>2. PICK first \in Beginnings :
         /\ first < Tok.first
         /\ LET annot == [first |-> first, last |-> Tok.first - 1, kind |-> "annot"]
                unread == IF InTrial THEN RevertCachedTokens(pp, 1) ELSE EnterToken(pp, Tok)
                asserts == InTrial => RevertCachedTokensAsserts(pp, 1)
            IN /\ InTrial => pp.CachedLexPos \in ReadInTrial
               /\ Call(asserts /\ AnnotateCachedTokensAsserts(unread, annot),
                       AnnotateCachedTokens(unread, annot), annot)
  BY DEF AnnotateBefore
<1> DEFINE u == [first |-> first, last |-> Tok.first - 1, kind |-> "annot"]
           p == pp.CachedLexPos
           c == pp.CachedTokens
           back == pp.BacktrackPositions
           last == LastBacktrack(pp)
           s == All(pp)
           r == RevertCachedTokens(pp, 1)
<1>3. /\ pp \in PPType /\ p \in Nat /\ c \in Seq(GoodToken) /\ p <= Len(c) /\ Len(c) \in Nat
  BY <1>1, LenProperties DEF Cached, PPType
<1>4. first \in 1..End => u \in GoodToken
  <2> HAVE first \in 1..End
  <2>1. Tok.first \in 1..End /\ End \in Nat
    BY <1>1, EndProperties
  <2>2. Tok.first - 1 \in 1..End /\ first <= Tok.first - 1 /\ Tok.first - 1 # End
    BY <2>1, <1>2
  <2>3. "annot" \in Kind
    BY DEF Kind
  <2> QED BY <2>2, <2>3 DEF GoodToken, Token
<1>5. u.first = first /\ u.last = Tok.first - 1 /\ u.kind = "annot"
  OBVIOUS
<1> HIDE DEF u
<1>6. CASE ~InTrial
  <2>1. PICK i \in 1..Len(Source) : first = Source[i].first
    BY <1>6 DEF Beginnings
  <2>2. Source[i] \in Token
    BY SourceIsAFile, ElementOfSeq
  <2>3. u \in GoodToken
    BY <2>1, <2>2, <1>4 DEF Token
  <2>4. back = << >>
    BY <1>6 DEF InTrial, isBacktrackEnabled
  <2>5. Tok.first = u.last + 1
    <3>1. Tok.first \in 1..End /\ End \in Nat
      BY <1>1, EndProperties
    <3> QED BY <3>1, <1>5
  <2>6. Good(EnterToken(pp, Tok), u, PrevToks)
    BY <2>3, <2>4, <2>5, <1>1, <1>5, GoodEnter
  <2>7. EnterToken(pp, Tok).BacktrackPositions = << >>
    BY <2>4, <1>1, EnterTokenProperties
  <2>8. /\ AnnotateCachedTokensAsserts(EnterToken(pp, Tok), u)
        /\ AnnotateCachedTokens(EnterToken(pp, Tok), u) = EnterToken(pp, Tok)
    BY <2>7 DEF AnnotateCachedTokensAsserts, AnnotateCachedTokens, isBacktrackEnabled
  <2> DEFINE entered == EnterToken(pp, Tok)
  <2>9. /\ Coming(entered) # << >> /\ Head(Coming(entered)) = Tok
        /\ Tail(Coming(entered)) = Coming(pp)
    <3>1. /\ All(entered) = Splice(All(pp), pp.CachedLexPos, pp.CachedLexPos, <<Tok>>)
          /\ entered.CachedLexPos = pp.CachedLexPos
      BY <1>1, EnterTokenProperties
    <3>2. pp.CachedLexPos <= Len(All(pp))
      BY <1>1 DEF Current, Follows
    <3> HIDE DEF entered
    <3> QED BY <3>1, <3>2, <1>1, <1>3, StreamEnter
  <2>10. Remembered(entered, PrevToks) = Rewrite(Remembered(pp, PrevToks), <<u>>)
    <3>1. Len(PrevToks) = 0
      BY <2>4, <1>1 DEF Trials
    <3> QED BY <3>1, NoneRemembered DEF Remembered
  <2> HIDE DEF entered
  <2>11. pp' = entered /\ Tok' = u /\ PrevToks' = PrevToks /\ assertsHold' = TRUE
    <3>1. Call(~InTrial \/ RevertCachedTokensAsserts(pp, 1), entered, u)
      BY <2>8, <1>2, <1>6 DEF Call, u, entered
    <3> QED BY <3>1, <1>1, <1>6 DEF Call
  <2> QED BY <2>6, <2>9, <2>10, <2>11, <1>2, <1>5
          DEF IInv, StreamAnnotatesBefore, Rewrites, entered
<1>7. CASE InTrial
  <2>1. /\ back # << >> /\ last \in Nat /\ p \in (last + 1)..p
        /\ \A k \in 1..Len(back) : back[k] <= last
        /\ Len(back) \in 1..Len(back) /\ last = back[Len(back)]
    <3>1. /\ back # << >> /\ p \in ReadInTrial /\ last \in 0..p
          /\ \A k \in 1..Len(back) : back[k] <= last
          /\ Len(back) \in 1..Len(back)
      BY <1>1, <1>2, <1>7, InnermostIsLast DEF InTrial, isBacktrackEnabled
    <3> QED BY <3>1, <1>3 DEF ReadInTrial, LastBacktrack
  <2>2. PICK j \in ReadInTrial : first = c[j].first
    BY <1>7 DEF Beginnings
  <2>3. /\ s \in Seq(GoodToken) /\ Len(s) \in Nat /\ Len(c) <= Len(s)
        /\ \A k \in 1..Len(c) : s[k] = c[k]
    <3>1. /\ s \in Seq(GoodToken) /\ Len(s) = Len(c) + Len(pp.lexers) /\ Len(pp.lexers) \in Nat
          /\ \A k \in 1..Len(c) : s[k] = c[k]
      BY <1>3, AllProperties
    <3> HIDE DEF s, c
    <3> QED BY <3>1, <1>3
  <2>4. Same(s[p], Tok)
    <3>1. \A k \in 1..Len(back) : back[k] < p => Same(s[p], Tok)
      BY <1>1 DEF Current
    <3>2. last < p
      BY <2>1, <1>3
    <3> QED BY <3>1, <3>2, <2>1
  <2>5. Follows(s, PrevToks[Len(back)].last, last) /\ PrevToks[Len(back)].last \in Nat
    <3>1. /\ \A k \in 1..Len(back) : Follows(s, PrevToks[k].last, back[k])
          /\ PrevToks \in Seq(GoodToken) /\ Len(PrevToks) = Len(back)
      BY <1>1 DEF Trials
    <3>2. PrevToks[Len(back)] \in GoodToken
      BY <3>1, <2>1, ElementOfSeq
    <3>3. PrevToks[Len(back)].last \in Nat
      BY <3>2, EndProperties
    <3> QED BY <3>1, <3>3, <2>1
  <2>6. j \in (last + 1)..p /\ j \in 1..Len(c)
    BY <2>1, <2>2, <1>3 DEF ReadInTrial
  <2> HIDE DEF p, c, back, last, s, r
  <2>7. /\ j \in (last + 1)..(p - 1) /\ p - 1 \in (last + 1)..Len(s) /\ p - 1 \in Nat
        /\ p - 1 \in (last + 1)..(Len(s) - 1) /\ (p - 1) + 1 = p
        /\ p - 1 \in 1..Len(c) /\ p \in 1..Len(c) /\ j \in 1..(p - 1) /\ last < j
    <3>1. Tok.first \in 1..End /\ End \in Nat
      BY <1>1, EndProperties
    <3>2. j # p
      BY <3>1, <2>2, <2>3, <2>4, <2>6, <1>2 DEF Same
    <3> QED BY <3>2, <2>1, <2>3, <2>6, <1>3
  <2>8. s[p - 1].last = u.last
    <3>1. \A i \in (last + 1)..(Len(s) - 1) : s[i + 1].first = s[i].last + 1
      BY <2>5 DEF Follows
    <3>2. Tok.first = s[p - 1].last + 1
      BY <3>1, <2>4, <2>7 DEF Same
    <3>3. s[p - 1] \in GoodToken
      <4>1. p - 1 \in 1..Len(s)
        BY <2>3, <2>7
      <4> QED BY <4>1, <2>3, ElementOfSeq
    <3>4. s[p - 1].last \in Nat
      BY <3>3, EndProperties
    <3> QED BY <3>2, <3>4, <1>5
  <2>9. Follows(s, u.last, p - 1)
    <3>1. Follows(s, s[p - 1].last, p - 1)
      BY <2>1, <2>3, <2>5, <2>7, FollowsWithin
    <3> QED BY <3>1, <2>8
  <2>10. u \in GoodToken
    <3>1. c[j] \in GoodToken
      BY <2>6, <1>3, ElementOfSeq
    <3> QED BY <3>1, <2>2, <1>4, EndProperties
  <2> DEFINE m == p - 1
  <2>11. r = [pp EXCEPT !.CachedLexPos = m]
    BY DEF RevertCachedTokens, r, p
  <2>12. m \in Nat
    BY <2>7
  <2> HIDE DEF m
  <2>13. /\ r \in PPType /\ r.CachedTokens = c /\ r.CachedLexPos = m /\ r.BacktrackPositions = back
         /\ r.lexers = pp.lexers /\ r.caching = pp.caching
    BY <2>11, <2>12, <1>3 DEF PPType, c, back
  <2>14. All(r) = s
    BY <2>13 DEF All, s, c
  <2>15. last <= m /\ m <= Len(c) /\ m # 0 /\ \A k \in 1..Len(back) : back[k] <= m
    <3>1. \A k \in 1..Len(back) : back[k] \in Nat
      BY <1>3, ElementOfSeq DEF PPType, back
    <3> QED BY <3>1, <2>1, <2>7, <1>3 DEF m
  <2>16. Cached(r)
    BY <2>13, <2>15, <1>1 DEF Cached, c, back
  <2>17. LastBacktrack(r) = last
    BY <2>13 DEF LastBacktrack, last, back
  <2>18. RevertCachedTokensAsserts(pp, 1)
    BY <2>1, <2>7 DEF RevertCachedTokensAsserts, isBacktrackEnabled, back, p, last
  <2>19. j \in Begins(r, u.first)
    BY <2>2, <2>7, <2>13, <1>5 DEF Begins, m
  <2>20. AnnotateCachedTokensAsserts(r, u) /\ Good(AnnotateCachedTokens(r, u), u, PrevToks)
    <3>1. Trials(All(r), r.BacktrackPositions, PrevToks) /\ Follows(All(r), u.last, r.CachedLexPos)
      BY <2>9, <2>13, <2>14, <1>1 DEF m, s, back
    <3>2. r.CachedTokens[r.CachedLexPos].last = u.last
      BY <2>3, <2>7, <2>8, <2>13 DEF m
    <3>3. r.BacktrackPositions # << >> /\ r.CachedLexPos # 0 /\ LastBacktrack(r) < j
      BY <2>1, <2>7, <2>13, <2>15, <2>17
    <3> QED BY <3>1, <3>2, <3>3, <2>10, <2>16, <2>19, GoodSummary
  <2> DEFINE after == AnnotateCachedTokens(r, u)
  <2>21. /\ Coming(after) = Coming(r)
         /\ Remembered(after, PrevToks) = Rewrite(Remembered(r, PrevToks), <<u>>)
    <3>1. Trials(All(r), r.BacktrackPositions, PrevToks) /\ Follows(All(r), u.last, r.CachedLexPos)
      BY <2>9, <2>13, <2>14, <1>1 DEF m, s, back
    <3>2. r.CachedTokens[r.CachedLexPos].last = u.last
      BY <2>3, <2>7, <2>8, <2>13 DEF m
    <3>3. r.BacktrackPositions # << >> /\ r.CachedLexPos # 0 /\ LastBacktrack(r) < j
      BY <2>1, <2>7, <2>13, <2>15, <2>17
    <3> QED BY <3>1, <3>2, <3>3, <2>10, <2>16, <2>19, StreamSummary
  <2>22. /\ Coming(r) # << >> /\ Head(Coming(r)) = s[p] /\ Tail(Coming(r)) = Coming(pp)
         /\ Remembered(r, PrevToks) = Remembered(pp, PrevToks)
    <3>1. m < Len(s) /\ m + 1 = p
      BY <2>3, <2>7 DEF m
    <3>2. /\ Rest(s, m) # << >> /\ Head(Rest(s, m)) = s[m + 1]
          /\ Tail(Rest(s, m)) = Rest(s, m + 1)
      BY <3>1, <2>3, <2>12, RestStep
    <3>3. /\ Coming(r) = Rest(s, m) /\ Coming(pp) = Rest(s, p)
          /\ Remembered(r, PrevToks) = Memory(s, back, PrevToks)
          /\ Remembered(pp, PrevToks) = Memory(s, back, PrevToks)
      BY <2>13, <2>14 DEF Coming, Remembered, s, p, back
    <3> QED BY <3>1, <3>2, <3>3
  <2> HIDE DEF after
  <2>23. pp' = after /\ Tok' = u /\ PrevToks' = PrevToks /\ assertsHold' = TRUE
    <3>1. Call(RevertCachedTokensAsserts(pp, 1) /\ AnnotateCachedTokensAsserts(r, u), after, u)
      BY <1>2, <1>7 DEF Call, u, r, after
    <3>2. (RevertCachedTokensAsserts(pp, 1) /\ AnnotateCachedTokensAsserts(r, u)) = TRUE
      BY <2>18, <2>20
    <3> QED BY <3>1, <3>2, <1>1 DEF Call
  <2>24. Good(after, u, PrevToks)
    BY <2>20 DEF after
  <2> QED BY <2>4, <2>21, <2>22, <2>23, <2>24, <1>2, <1>5
          DEF IInv, StreamAnnotatesBefore, Rewrites, Same
<1> QED BY <1>6, <1>7

\* A token is read and handed back.
LEMMA ReadScopeAgainKeeps == IInv /\ ReadScopeAgain => IInv' /\ StreamStays
<1> SUFFICES ASSUME IInv, ReadScopeAgain PROVE IInv' /\ StreamStays
  OBVIOUS
<1> DEFINE read == Lex(pp)
           n == LexResult(pp)
<1>1. /\ Good(pp, Tok, PrevToks) /\ Tok \in GoodToken /\ Tok.kind = "annot" /\ Tok.last # End
      /\ assertsHold = TRUE
  BY NotAtEnd DEF IInv, Good, Current, ReadScopeAgain
<1>2. /\ Good(read, n, PrevToks) /\ n.first = Tok.last + 1
      /\ read.BacktrackPositions = pp.BacktrackPositions
      /\ pp.BacktrackPositions # << >> =>
            All(read) = All(pp) /\ read.CachedLexPos = pp.CachedLexPos + 1
  BY <1>1, GoodLex
<1>3. CASE InTrial
  <2> DEFINE p == pp.CachedLexPos
             back == pp.BacktrackPositions
             r == RevertCachedTokens(read, 1)
  <2>1. /\ back # << >> /\ All(read) = All(pp) /\ read.CachedLexPos = p + 1
        /\ read.BacktrackPositions = back
    BY <1>2, <1>3 DEF InTrial, isBacktrackEnabled
  <2>2. /\ Cached(pp) /\ p \in Nat /\ back \in Seq(Nat) /\ Cached(read) /\ read \in PPType
    BY <1>1, <1>2 DEF Good, Cached, PPType
  <2>3. read.CachedLexPos - 1 = p
    <3> HIDE DEF p
    <3> QED BY <2>1, <2>2
  <2>4. r = [read EXCEPT !.CachedLexPos = p]
    BY <2>3 DEF RevertCachedTokens
  <2> HIDE DEF read, r
  <2>5. /\ r \in PPType /\ r.CachedTokens = read.CachedTokens /\ r.CachedLexPos = p
        /\ r.lexers = read.lexers /\ r.BacktrackPositions = back /\ r.caching = read.caching
    BY <2>1, <2>2, <2>4 DEF PPType
  <2>6. All(r) = All(pp)
    BY <2>1, <2>5 DEF All
  <2>7. /\ p <= Len(read.CachedTokens)
        /\ \A k \in 1..Len(back) : back[k] <= p /\ \A j \in 1..k : back[j] <= back[k]
    <3> DEFINE c == Len(read.CachedTokens)
    <3>1. p + 1 <= c /\ c \in Nat
      BY <2>1, <2>2, LenProperties DEF Cached, PPType
    <3> HIDE DEF c, p
    <3>2. p <= c
      BY <3>1, <2>2
    <3> QED BY <3>2, <2>2 DEF Cached, c, p
  <2>8. Cached(r)
    BY <2>1, <2>2, <2>5, <2>7 DEF Cached
  <2>9. Good(r, Tok, PrevToks)
    BY <2>5, <2>6, <2>8, <1>1 DEF Good
  <2>10. RevertCachedTokensAsserts(read, 1)
    <3>1. Len(back) \in 1..Len(back)
      BY <2>1, <2>2, PoppedProperties
    <3>2. LastBacktrack(read) = back[Len(back)] /\ back[Len(back)] <= p
      BY <3>1, <2>1, <2>7 DEF LastBacktrack
    <3>3. back[Len(back)] \in Nat
      BY <3>1, <2>2, ElementOfSeq
    <3> HIDE DEF p, back
    <3> QED BY <3>2, <3>3, <2>1, <2>2, <2>3 DEF RevertCachedTokensAsserts, isBacktrackEnabled
  <2>11. Coming(r) = Coming(pp) /\ Remembered(r, PrevToks) = Remembered(pp, PrevToks)
    BY <2>5, <2>6 DEF Coming, Remembered
  <2>12. pp' = r /\ Tok' = Tok /\ PrevToks' = PrevToks /\ assertsHold' = TRUE
    <3>1. Call(RevertCachedTokensAsserts(read, 1), r, Tok) /\ PrevToks' = PrevToks
      BY <1>3 DEF ReadScopeAgain, read, r
    <3>2. RevertCachedTokensAsserts(read, 1) = TRUE
      BY <2>10 DEF RevertCachedTokensAsserts, isBacktrackEnabled
    <3> QED BY <3>1, <3>2 DEF Call
  <2> QED BY <2>9, <2>11, <2>12 DEF IInv, StreamStays
<1>4. CASE ~InTrial
  <2>1. read.BacktrackPositions = << >>
    BY <1>2, <1>4 DEF InTrial, isBacktrackEnabled
  <2>2. Good(EnterToken(read, n), Tok, PrevToks)
    BY <2>1, <1>1, <1>2, GoodEnter
  <2> DEFINE r == EnterToken(read, n)
  <2>3. /\ Cached(r) /\ All(r) = Splice(All(read), read.CachedLexPos, read.CachedLexPos, <<n>>)
        /\ r.CachedLexPos = read.CachedLexPos
    <3>1. Cached(read) /\ n \in GoodToken
      BY <1>2 DEF Good, Current
    <3> HIDE DEF read, n
    <3> QED BY <3>1, EnterTokenProperties
  <2>4. pp.BacktrackPositions = << >>
    BY <1>4 DEF InTrial, isBacktrackEnabled
  <2> HIDE DEF r
  <2>5. Coming(r) = Coming(pp) /\ Remembered(r, PrevToks) = Remembered(pp, PrevToks)
    BY <2>3, <2>4, <1>1, StreamReentered
  <2>6. pp' = r /\ Tok' = Tok /\ PrevToks' = PrevToks /\ assertsHold' = TRUE
    BY <1>4 DEF ReadScopeAgain, Call, r
  <2> QED BY <2>2, <2>5, <2>6 DEF IInv, StreamStays, r
<1> QED BY <1>3, <1>4

\* CorrectTypo: one token for another that stands for the same text.
LEMMA CorrectTypoKeeps == IInv /\ CorrectTypo => IInv' /\ StreamAnnotates
<1> SUFFICES ASSUME IInv, CorrectTypo PROVE IInv' /\ StreamAnnotates
  OBVIOUS
<1> DEFINE u == [Tok EXCEPT !.kind = "op"]
           p == pp.CachedLexPos
           c == pp.CachedTokens
           back == pp.BacktrackPositions
           r == TypoCorrectToken(pp, u)
<1>1. /\ Cached(pp) /\ Trials(All(pp), back, PrevToks) /\ assertsHold = TRUE
      /\ Current(All(pp), p, back, Tok) /\ Follows(All(pp), Tok.last, p)
      /\ Tok \in GoodToken /\ Tok.kind = "name" /\ Tok.last # End
  BY NotAtEnd DEF IInv, Good, Current, CorrectTypo
<1>2. Call(TRUE, r, u) /\ UNCHANGED PrevToks
  BY DEF CorrectTypo
<1>3. u \in GoodToken /\ u.first = Tok.first /\ u.last = Tok.last /\ u.kind = "op" /\ Same(u, Tok)
  BY <1>1 DEF GoodToken, Token, Kind, Same
<1>4. /\ pp \in PPType /\ p \in Nat /\ c \in Seq(GoodToken) /\ p <= Len(c) /\ Len(c) \in Nat
      /\ back \in Seq(Nat) /\ \A k \in 1..Len(back) : back[k] \in Nat /\ back[k] <= p
  BY <1>1, LenProperties, ElementOfSeq DEF Cached, PPType
<1> HIDE DEF u
<1>5. /\ Good(r, u, PrevToks) /\ Coming(r) = Coming(pp)
      /\ Remembered(r, PrevToks) = Rewrite(Remembered(pp, PrevToks), <<u>>)
  <2>1. CASE p = 0 \/ back = << >>
    <3>1. r = pp
      BY <2>1 DEF TypoCorrectToken, isBacktrackEnabled
    <3>2. \A k \in 1..Len(back) : ~(back[k] < p)
      <4>1. back = << >> => Len(back) = 0
        OBVIOUS
      <4> HIDE DEF p, back
      <4> QED BY <4>1, <1>4, <2>1
    <3>3. Current(All(pp), p, back, u)
      BY <3>2, <1>1, <1>3 DEF Current
    <3>4. Remembered(pp, PrevToks) = Rewrite(Remembered(pp, PrevToks), <<u>>)
      BY <2>1, <1>1, <1>3, StreamUntouched
    <3> HIDE DEF r
    <3> QED BY <3>1, <3>3, <3>4, <1>1 DEF Good
  <2>2. CASE p # 0 /\ back # << >>
    <3> DEFINE c2 == Splice(c, p - 1, p, <<u>>)
               m == Moved(pp, c2, p)
    <3>1. p \in 1..p /\ p \in 1..Len(c)
      BY <1>4, <2>2
    <3>2. [c EXCEPT ![p] = u] = c2
      BY <3>1, <1>3, <1>4, OverwriteLast
    <3>3. r = [pp EXCEPT !.CachedTokens = c2]
      <4>1. r = [pp EXCEPT !.CachedTokens = [c EXCEPT ![p] = u]]
        BY <2>2 DEF TypoCorrectToken, isBacktrackEnabled
      <4> HIDE DEF c2
      <4> QED BY <4>1, <3>2
    <3>4. Same(u, c[p]) /\ c[p].first = u.first /\ c[p].last = u.last
      <4>1. All(pp)[p] = c[p]
        BY <3>1, <1>4, AllProperties
      <4>2. Same(c[p], Tok)
        BY <4>1, <1>1, <2>2 DEF Current
      <4> QED BY <4>2, <1>3 DEF Same
    <3>5. /\ Good(m, u, PrevToks) /\ Coming(m) = Coming(pp)
          /\ Remembered(m, PrevToks) = Rewrite(Remembered(pp, PrevToks), <<u>>)
      <4>1. \A k \in 1..Len(back) : back[k] <= p - 1 \/ (back[k] = p /\ p = p /\ Same(u, c[p]))
        <5> HIDE DEF back, p
        <5> QED BY <1>4, <3>4
      <4>2. Follows(All(pp), u.last, p)
        BY <1>1, <1>3
      <4>3. Good(m, u, PrevToks)
        BY <4>1, <4>2, <3>1, <3>4, <1>1, <1>3, GoodAnnotated
      <4>4. /\ Coming(m) = Coming(pp)
            /\ Remembered(m, PrevToks) = Rewrite(Remembered(pp, PrevToks), <<u>>)
        BY <4>1, <4>2, <3>1, <3>4, <1>1, <1>3, StreamAnnotated
      <4> QED BY <4>3, <4>4
    <3>6. c2 \in Seq(GoodToken)
      <4>1. p - 1 \in 0..Len(c) /\ p \in (p - 1)..Len(c)
        <5> HIDE DEF p, c
        <5> QED BY <3>1, <1>4
      <4>2. <<u>> \in Seq(GoodToken)
        BY <1>3
      <4> QED BY <4>1, <4>2, <1>4, SpliceProperties
    <3> HIDE DEF c2, r, m
    <3>7. /\ r \in PPType /\ r.CachedTokens = c2 /\ r.CachedLexPos = p /\ r.BacktrackPositions = back
          /\ r.lexers = pp.lexers /\ r.caching = pp.caching
      BY <3>3, <3>6, <1>4 DEF PPType
    <3>8. /\ m.CachedTokens = c2 /\ m.CachedLexPos = p /\ m.BacktrackPositions = back
          /\ m.lexers = pp.lexers /\ m.caching = pp.caching
      BY <1>4 DEF m, Moved, PPType
    <3>9. All(r) = All(m)
      BY <3>7, <3>8 DEF All
    <3>10. Cached(r)
      BY <3>5, <3>7, <3>8 DEF Good, Cached
    <3>11. Good(r, u, PrevToks)
      BY <3>5, <3>7, <3>8, <3>9, <3>10 DEF Good
    <3>12. Coming(r) = Coming(m) /\ Remembered(r, PrevToks) = Remembered(m, PrevToks)
      BY <3>7, <3>8, <3>9 DEF Coming, Remembered
    <3> QED BY <3>5, <3>11, <3>12
  <2> QED BY <2>1, <2>2
<1> HIDE DEF r
<1>6. pp' = r /\ Tok' = u /\ PrevToks' = PrevToks /\ assertsHold' = TRUE
  BY <1>2 DEF Call
<1>7. Tok.first \in Nat
  BY <1>1, EndProperties
<1>8. u.first <= Tok.first /\ u.last = Tok.last
  BY <1>3, <1>7
<1> QED BY <1>5, <1>6, <1>8 DEF IInv, StreamAnnotates, Rewrites

\* SplitGreater: in a trial the token is always found in the cache, so the
\* parts replace it there; elsewhere it may not be found, and nobody comes back.
LEMMA SplitGreaterKeeps ==
  ASSUME NEW ConsumeLastToken \in BOOLEAN
  PROVE  IInv /\ SplitGreater(ConsumeLastToken) => IInv' /\ StreamSplits
<1> SUFFICES ASSUME IInv, SplitGreater(ConsumeLastToken) PROVE IInv' /\ StreamSplits
  OBVIOUS
<1> DEFINE looked == LookAhead(pp, 0)
           next == LookAheadResult(pp, 0)
           merge == Tok.kind = "greaterequal" /\ next.kind = "eq"
           CachingTokens == IsPreviousCachedToken(looked, Tok)
           read == IF merge THEN Lex(looked) ELSE looked
           Greater == [first |-> Tok.first, last |-> Tok.first, kind |-> "greater"]
           e == IF merge THEN next.last ELSE Tok.last
           rest == [first |-> Tok.first + 1, last |-> e, kind |-> RestKind(merge)]
           p == pp.CachedLexPos
           back == pp.BacktrackPositions
           s == All(pp)
           b == IF merge THEN p + 1 ELSE p
<1>1. /\ Good(pp, Tok, PrevToks) /\ Cached(pp) /\ pp \in PPType /\ p \in Nat
      /\ Follows(s, Tok.last, p) /\ Trials(s, back, PrevToks) /\ assertsHold = TRUE
      /\ Tok \in GoodToken /\ Tok.kind \in {"greatergreater", "greaterequal"}
      /\ Tok.last # End /\ Tok.first < Tok.last /\ UNCHANGED PrevToks
      /\ \A k \in 1..Len(back) : back[k] < p => Same(s[p], Tok)
  <2>1. /\ Good(pp, Tok, PrevToks) /\ Cached(pp) /\ Current(s, p, back, Tok)
        /\ Trials(s, back, PrevToks) /\ assertsHold = TRUE
        /\ Tok.kind \in {"greatergreater", "greaterequal"} /\ UNCHANGED PrevToks
    BY DEF IInv, Good, SplitGreater
  <2>2. Tok \in GoodToken /\ pp \in PPType /\ p \in Nat
    BY <2>1 DEF Current, Cached, PPType
  <2>3. Tok.last # End /\ Tok.first < Tok.last
    BY <2>1, <2>2, NotAtEnd DEF GoodToken
  <2> QED BY <2>1, <2>2, <2>3 DEF Current
<1>2. s \in Seq(GoodToken) /\ Len(s) \in Nat /\ p < Len(s) /\ Missing(pp, 0) <= Len(pp.lexers)
  <2> DEFINE c == Len(pp.CachedTokens)
             l == Len(pp.lexers)
  <2>1. s \in Seq(GoodToken) /\ Len(s) = c + l /\ c \in Nat /\ l \in Nat
    BY <1>1, AllProperties
  <2>2. p <= Len(s) /\ p # Len(s)
    BY <1>1 DEF Follows
  <2>3. Missing(pp, 0) = p + 0 + 1 - c
    BY DEF Missing
  <2> HIDE DEF c, l, p, s
  <2>4. p < Len(s) /\ p + 0 + 1 - c <= l /\ Len(s) \in Nat
    BY <2>1, <2>2, <1>1
  <2> QED BY <2>1, <2>3, <2>4 DEF l
<1>3. /\ Cached(looked) /\ looked \in PPType /\ All(looked) = s /\ looked.CachedLexPos = p
      /\ looked.BacktrackPositions = back /\ looked.caching = TRUE
      /\ p + 0 < Len(looked.CachedTokens)
  BY <1>1, <1>2, LookAheadProperties DEF Cached
<1> DEFINE c == looked.CachedTokens
<1>4. next = c[p + 0 + 1]
  BY <1>3 DEF LookAheadResult
<1> HIDE DEF looked, next, p, back, s, c
<1>5. /\ Len(c) \in Nat /\ p < Len(c) /\ p + 0 + 1 = p + 1 /\ c \in Seq(GoodToken)
      /\ p + 1 \in 1..Len(c) /\ p + 1 \in 1..Len(s) /\ p + 1 \in (p + 1)..Len(s)
      /\ p # 0 => p \in 1..Len(c) /\ p \in 1..Len(s)
  <2>1. c \in Seq(GoodToken)
    BY <1>3 DEF PPType, c
  <2>2. Len(c) \in Nat /\ p + 0 < Len(c)
    BY <2>1, <1>3, LenProperties DEF c
  <2> QED BY <2>1, <2>2, <1>1, <1>2
<1>6. \A i \in 1..Len(c) : s[i] = c[i]
  BY <1>3, AllProperties DEF c
<1>7. next = s[p + 1] /\ next \in GoodToken /\ next.first = Tok.last + 1
  <2>1. next = s[p + 1]
    BY <1>4, <1>5, <1>6
  <2> QED BY <2>1, <1>1, <1>2, <1>5, ElementOfSeq DEF Follows
<1>8. Follows(s, next.last, p + 1)
  <2>1. Tok.last \in Nat
    BY <1>1, EndProperties
  <2> QED BY <2>1, <1>1, <1>2, <1>5, <1>7, FollowsWithin
<1>9. /\ Tok.first \in 1..End /\ Tok.last \in 1..End /\ next.first \in 1..End
      /\ next.last \in 1..End /\ next.first <= next.last /\ End \in Nat
      /\ merge => next.last # End
  <2>1. merge => next.last # End
    BY <1>7, NotAtEnd
  <2> QED BY <2>1, <1>1, <1>7, EndProperties DEF GoodToken
<1>10. Follows(s, e, b) /\ e \in 1..End /\ e # End /\ Tok.first + 1 <= e /\ Tok.first # End
  <2>1. CASE merge
    BY <2>1, <1>1, <1>7, <1>8, <1>9
  <2>2. CASE ~merge
    BY <2>2, <1>1, <1>9
  <2> QED BY <2>1, <2>2
<1>11. /\ Cached(read) /\ All(read) = s /\ read.CachedLexPos = b
       /\ read.BacktrackPositions = back /\ read.caching = TRUE
  <2>1. CASE merge
    <3>1. read = Lex(looked) /\ b = p + 1
      BY <2>1
    <3>2. Unread(looked)
      BY <1>3, <1>5 DEF Unread, c
    <3>3. /\ Cached(Lex(looked)) /\ Lex(looked).BacktrackPositions = back
          /\ All(Lex(looked)) = s /\ Lex(looked).CachedLexPos = p + 1
      BY <3>2, <1>2, <1>3, LexProperties
    <3> DEFINE n == looked.CachedLexPos + 1
    <3>4. Lex(looked) = [looked EXCEPT !.CachedLexPos = n]
      BY <3>2, <1>3 DEF Lex
    <3> HIDE DEF n
    <3>5. Lex(looked).caching = TRUE
      BY <3>4, <1>3 DEF PPType
    <3> QED BY <3>1, <3>3, <3>5
  <2>2. CASE ~merge
    BY <2>2, <1>3
  <2> QED BY <2>1, <2>2
<1>12. /\ Greater \in GoodToken /\ rest \in GoodToken /\ Greater.kind # "name" /\ rest.kind # "name"
       /\ rest.first = Greater.last + 1 /\ Greater.first = Tok.first /\ rest.last = e
  <2>1. RestKind(merge) \in {"greater", "op", "eq"}
    BY <1>1 DEF RestKind
  <2>2. Greater \in GoodToken
    BY <1>9, <1>10 DEF GoodToken, Token, Kind
  <2> HIDE DEF e, merge
  <2>3. Tok.first + 1 \in 1..End
    BY <1>9, <1>10
  <2>4. rest \in Token
    BY <2>1, <2>3, <1>10 DEF Token, Kind
  <2>5. rest.first = Tok.first + 1 /\ rest.last = e /\ rest.kind = RestKind(merge)
    OBVIOUS
  <2> HIDE DEF rest
  <2>6. rest \in GoodToken
    BY <2>1, <2>4, <2>5, <1>10 DEF GoodToken
  <2> QED BY <2>1, <2>2, <2>5, <2>6
<1>13. back # << >> =>
         /\ p # 0 /\ Same(s[p], Tok)
         /\ \A k \in 1..Len(back) : back[k] <= p - 1
  <2> HAVE back # << >>
  <2>1. pp.CachedLexPos \in ReadInTrial
    BY DEF SplitGreater, InTrial, isBacktrackEnabled, back
  <2>2. /\ LastBacktrack(pp) \in 0..p /\ \A k \in 1..Len(back) : back[k] <= LastBacktrack(pp)
        /\ Len(back) \in 1..Len(back)
    BY <1>1, InnermostIsLast DEF back, p
  <2>3. LastBacktrack(pp) < p
    BY <2>1, <2>2, <1>1 DEF ReadInTrial, p
  <2>4. \A k \in 1..Len(back) : back[k] \in Nat
    BY <1>1, ElementOfSeq DEF PPType, back
  <2> DEFINE last == LastBacktrack(pp)
  <2> HIDE DEF last
  <2>5. p # 0 /\ \A k \in 1..Len(back) : back[k] <= p - 1 /\ back[k] < p
    <3>1. last \in 0..p /\ last < p /\ \A k \in 1..Len(back) : back[k] <= last
      BY <2>2, <2>3 DEF last
    <3> QED BY <3>1, <2>4, <1>1
  <2> QED BY <2>2, <2>5, <1>1
<1>14. CachingTokens <=> p # 0 /\ c[p].kind = Tok.kind /\ c[p].first = Tok.first
  BY <1>3 DEF IsPreviousCachedToken, c
<1> HIDE DEF CachingTokens
<1> DEFINE dropped == IF merge THEN ReplacePreviousCachedToken(read, << >>) ELSE read
           x == IF ConsumeLastToken THEN <<Greater, rest>> ELSE <<Greater>>
           updated == IF CachingTokens THEN ReplacePreviousCachedToken(dropped, x) ELSE read
           result == IF ConsumeLastToken THEN updated ELSE EnterToken(updated, rest)
           current == IF ConsumeLastToken THEN rest ELSE Greater
<1>15. x \in Seq(GoodToken) /\ Len(x) = (IF ConsumeLastToken THEN 2 ELSE 1)
  <2> HIDE DEF Greater, rest
  <2> QED BY <1>12
<1>16. Greater = [first |-> Tok.first, last |-> Tok.first, kind |-> "greater"]
  OBVIOUS
<1> HIDE DEF read, e, b, merge, Greater, rest, dropped, x, updated, result, current
<1> DEFINE after == Rest(s, b)
<1>17. /\ Remembered(pp, PrevToks) = Memory(s, back, PrevToks)
       /\ \/ rest.last = Tok.last /\ after = Coming(pp)
          \/ /\ Coming(pp) # << >> /\ rest.last = Head(Coming(pp)).last
             /\ after = Tail(Coming(pp))
  <2>1. /\ Coming(pp) = Rest(s, p) /\ Remembered(pp, PrevToks) = Memory(s, back, PrevToks)
    BY DEF Coming, Remembered, s, p, back
  <2>2. CASE merge
    <3>1. b = p + 1 /\ rest.last = s[p + 1].last
      BY <2>2, <1>7, <1>12 DEF b, e
    <3>2. /\ Rest(s, p) # << >> /\ Head(Rest(s, p)) = s[p + 1]
          /\ Tail(Rest(s, p)) = Rest(s, p + 1)
      BY <1>1, <1>2, RestStep
    <3> QED BY <3>1, <3>2, <2>1
  <2>3. CASE ~merge
    <3>1. b = p /\ rest.last = Tok.last
      BY <2>3, <1>12 DEF b, e
    <3> QED BY <3>1, <2>1
  <2> QED BY <2>2, <2>3
<1> HIDE DEF after
\* The parts are in the right places, whichever of them is the current token.
<1>18. ASSUME pp' = result, Tok' = current, PrevToks' = PrevToks,
              Remembered(result, PrevToks)
                = Rewrite(Memory(s, back, PrevToks), <<Greater, rest>>),
              ConsumeLastToken => Coming(result) = after,
              ~ConsumeLastToken => /\ Coming(result) # << >>
                                   /\ Head(Coming(result)) = rest
                                   /\ Tail(Coming(result)) = after
       PROVE  StreamSplits
  <2>1. Splits(Greater, rest, after)
    BY <1>12, <1>17, <1>18 DEF Splits, Rewrites
  <2>2. CASE ConsumeLastToken
    <3>1. Tok' = rest /\ Coming(pp') = after
      BY <2>2, <1>18 DEF current
    <3>2. rest.first = Tok.first + 1 /\ Tok.first \in Nat
      BY <1>9, <1>12, <1>16
    <3>3. rest.first > Tok.first /\ rest.first - 1 = Tok.first
      BY <3>2
    <3>4. Greater = [first |-> Tok.first, last |-> Tok'.first - 1, kind |-> "greater"]
      BY <3>1, <3>3, <1>16
    <3> QED BY <3>1, <3>3, <3>4, <2>1 DEF StreamSplits
  <2>3. CASE ~ConsumeLastToken
    <3>1. Tok' = Greater /\ Coming(pp') # << >> /\ Head(Coming(pp')) = rest
          /\ Tail(Coming(pp')) = after
      BY <2>3, <1>18 DEF current
    <3> QED BY <3>1, <2>1 DEF StreamSplits
  <2> QED BY <2>2, <2>3
<1>19. CASE CachingTokens
  <2> DEFINE r == ReplacePreviousCachedToken(dropped, x)
  <2>1. p # 0 /\ s[p].first = Tok.first /\ p \in 1..Len(s)
    BY <1>5, <1>6, <1>14, <1>19
  <2>2. /\ merge \in BOOLEAN /\ b = (IF merge THEN p + 1 ELSE p) /\ b \in p..Len(s)
        /\ Len(x) \in 1..2
    BY <1>1, <1>2, <1>15 DEF merge, b
  <2>3. \A k \in 1..Len(back) : back[k] \in Nat /\ back[k] <= p - 1 /\ back[k] <= p
    <3>1. \A k \in 1..Len(back) : back[k] \in Nat
      BY <1>1, ElementOfSeq DEF PPType, back
    <3>2. back = << >> => Len(back) = 0
      OBVIOUS
    <3>3. \A k \in 1..Len(back) : back[k] <= p - 1
      BY <3>2, <1>13
    <3> QED BY <3>1, <3>3, <1>1
  <2>4. NoneAfter(read, p)
    BY <2>3, <1>11 DEF NoneAfter
  <2>5. read.CachedLexPos = (IF merge THEN p + 1 ELSE p)
    BY <2>2, <1>11
  <2>6. /\ ReplacePreviousCachedTokenAsserts(read)
        /\ ReplacePreviousCachedTokenAsserts(dropped)
        /\ Cached(r) /\ All(r) = Splice(All(read), p - 1, read.CachedLexPos, x)
        /\ r.CachedLexPos = p + Len(x) - 1
        /\ r.BacktrackPositions = read.BacktrackPositions
    <3>1. /\ Cached(read) /\ read.caching = TRUE /\ p \in Nat /\ p # 0 /\ merge \in BOOLEAN
          /\ read.CachedLexPos = (IF merge THEN p + 1 ELSE p) /\ NoneAfter(read, p)
          /\ x \in Seq(GoodToken) /\ Len(x) \in 1..2
      BY <2>1, <2>2, <2>4, <2>5, <1>1, <1>11, <1>15
    <3> QED BY <3>1, SplitInCache DEF dropped
  <2> HIDE DEF r
  <2>7. updated = r
    BY <1>19 DEF updated, r
  <2>8. /\ Cached(result) /\ All(result) = Splice(s, p - 1, b, <<Greater, rest>>)
        /\ result.BacktrackPositions = back
        /\ result.CachedLexPos = (IF ConsumeLastToken THEN p + 1 ELSE p)
    <3>1. CASE ConsumeLastToken
      <4>1. result = r /\ x = <<Greater, rest>> /\ p + Len(x) - 1 = p + 1
        BY <3>1, <2>7, <1>1, <1>15 DEF result, x
      <4> QED BY <4>1, <3>1, <2>6, <1>11
    <3>2. CASE ~ConsumeLastToken
      <4>1. result = EnterToken(r, rest) /\ x = <<Greater>> /\ p + Len(x) - 1 = p
        BY <3>2, <2>7, <1>1, <1>15 DEF result, x
      <4>2. r.CachedLexPos = p /\ All(r) = Splice(s, p - 1, b, <<Greater>>)
        BY <4>1, <2>6, <1>11
      <4>3. /\ Cached(EnterToken(r, rest))
            /\ All(EnterToken(r, rest)) = Splice(All(r), r.CachedLexPos, r.CachedLexPos, <<rest>>)
            /\ EnterToken(r, rest).CachedLexPos = r.CachedLexPos
            /\ EnterToken(r, rest).BacktrackPositions = r.BacktrackPositions
        BY <2>6, <1>12, EnterTokenProperties
      <4> DEFINE a == p - 1
      <4>4. a + 1 = p /\ a \in 0..Len(s) /\ b \in a..Len(s)
        BY <2>1, <2>2, <1>1, <1>2
      <4> HIDE DEF a
      <4>5. Splice(Splice(s, a, b, <<Greater>>), a + 1, a + 1, <<rest>>)
              = Splice(s, a, b, <<Greater, rest>>)
        BY <4>4, <1>2, <1>12, SpliceThenInsert
      <4>6. All(EnterToken(r, rest)) = Splice(s, a, b, <<Greater, rest>>)
        BY <4>2, <4>3, <4>4, <4>5 DEF a
      <4> QED BY <4>1, <4>2, <4>3, <4>6, <3>2, <2>6, <1>11 DEF a
    <3> QED BY <3>1, <3>2
  <2>9. back # << >> => Greater.first = s[p].first /\ rest.last = s[b].last
    <3> HAVE back # << >>
    <3>1. Same(s[p], Tok)
      BY <1>13
    <3>2. e = s[b].last
      <4>1. CASE merge
        BY <4>1, <1>7 DEF e, b
      <4>2. CASE ~merge
        BY <4>2, <3>1 DEF e, b, Same
      <4> QED BY <4>1, <4>2
    <3> QED BY <3>2, <2>1, <1>12
  <2>10. Follows(s, rest.last, b)
    BY <1>10, <1>12
  <2>11. /\ result.CachedLexPos = p + 1 => Good(result, rest, PrevToks)
         /\ result.CachedLexPos = p => Good(result, Greater, PrevToks)
    <3>1. /\ \A k \in 1..Len(result.BacktrackPositions) : result.BacktrackPositions[k] <= p - 1
          /\ Trials(s, result.BacktrackPositions, PrevToks)
          /\ result.BacktrackPositions # << >> =>
                Greater.first = s[p].first /\ rest.last = s[b].last
      BY <2>3, <2>8, <2>9, <1>1
    <3> QED BY <3>1, <2>1, <2>2, <2>8, <2>10, <1>2, <1>12, GoodSplit
  <2>12. /\ result.CachedLexPos = p + 1 => Coming(result) = after
         /\ result.CachedLexPos = p => /\ Coming(result) # << >>
                                       /\ Head(Coming(result)) = rest
                                       /\ Tail(Coming(result)) = after
         /\ Remembered(result, PrevToks)
              = Rewrite(Memory(s, back, PrevToks), <<Greater, rest>>)
    <3>1. /\ \A k \in 1..Len(result.BacktrackPositions) : result.BacktrackPositions[k] <= p - 1
          /\ Trials(s, result.BacktrackPositions, PrevToks)
          /\ result.BacktrackPositions # << >> =>
                Greater.first = s[p].first /\ rest.last = s[b].last
      BY <2>3, <2>8, <2>9, <1>1
    <3>2. SplitIn(result, PrevToks, s, p, b, Greater, rest)
      BY <3>1, <2>1, <2>2, <2>8, <2>10, <1>2, <1>12 DEF SplitIn
    <3>3. /\ result.CachedLexPos = p + 1 => Coming(result) = Rest(s, b)
          /\ result.CachedLexPos = p => /\ Coming(result) # << >>
                                        /\ Head(Coming(result)) = rest
                                        /\ Tail(Coming(result)) = Rest(s, b)
          /\ Remembered(result, PrevToks)
               = Rewrite(Memory(s, result.BacktrackPositions, PrevToks), <<Greater, rest>>)
      BY <3>2, StreamSplit
    <3> QED BY <3>3, <2>8 DEF after
  <2>13. Good(result, current, PrevToks)
    BY <2>8, <2>11 DEF current
  <2>14. Call(TRUE, result, current)
    <3>1. CASE ConsumeLastToken
      BY <3>1, <2>6, <1>19 DEF SplitGreater, result, current, updated, x, dropped, read, rest,
             Greater, e, merge, next, looked, CachingTokens
    <3>2. CASE ~ConsumeLastToken
      BY <3>2, <2>6, <1>19 DEF SplitGreater, result, current, updated, x, dropped, read, rest,
             Greater, e, merge, next, looked, CachingTokens
    <3> QED BY <3>1, <3>2
  <2>15. pp' = result /\ Tok' = current /\ PrevToks' = PrevToks /\ assertsHold' = TRUE
    BY <2>14, <1>1 DEF Call
  <2>16. StreamSplits
    BY <2>8, <2>12, <2>15, <1>18
  <2> QED BY <2>13, <2>15, <2>16 DEF IInv
<1>20. CASE ~CachingTokens
  <2>1. back = << >>
    <3> SUFFICES ASSUME back # << >> PROVE FALSE
      OBVIOUS
    <3>1. p # 0 /\ c[p] = s[p] /\ Same(s[p], Tok)
      BY <1>5, <1>6, <1>13
    <3>2. c[p] \in GoodToken /\ c[p].kind \in Kind
      BY <3>1, <1>5, ElementOfSeq DEF GoodToken, Token
    <3>3. c[p].kind = Tok.kind /\ c[p].first = Tok.first
      BY <3>1, <1>1 DEF Same
    <3> QED BY <3>1, <3>3, <1>14, <1>20
  <2>2. updated = read
    BY <1>20 DEF updated
  <2>3. Good(read, rest, PrevToks)
    <3>1. Len(back) = 0
      BY <2>1
    <3>2. Current(s, b, back, rest)
      BY <3>1, <1>10, <1>12 DEF Current
    <3> QED BY <3>2, <1>1, <1>11 DEF Good
  <2>4. Good(result, current, PrevToks)
    <3>1. CASE ConsumeLastToken
      BY <3>1, <2>2, <2>3 DEF result, current
    <3>2. CASE ~ConsumeLastToken
      <4>1. Good(EnterToken(read, rest), Greater, PrevToks)
        BY <2>1, <2>3, <1>11, <1>12, GoodEnter
      <4> QED BY <4>1, <3>2, <2>2 DEF result, current
    <3> QED BY <3>1, <3>2
  <2>5. Call(TRUE, result, current)
    <3>1. CASE ConsumeLastToken
      BY <3>1, <1>20 DEF SplitGreater, result, current, updated, x, dropped, read, rest,
             Greater, e, merge, next, looked, CachingTokens
    <3>2. CASE ~ConsumeLastToken
      BY <3>2, <1>20 DEF SplitGreater, result, current, updated, x, dropped, read, rest,
             Greater, e, merge, next, looked, CachingTokens
    <3> QED BY <3>1, <3>2
  <2>6. pp' = result /\ Tok' = current /\ PrevToks' = PrevToks /\ assertsHold' = TRUE
    BY <2>5, <1>1 DEF Call
  <2>7. Coming(read) = after
    BY <1>11 DEF Coming, after
  <2>8. /\ ConsumeLastToken => Coming(result) = after
        /\ ~ConsumeLastToken => /\ Coming(result) # << >>
                                /\ Head(Coming(result)) = rest
                                /\ Tail(Coming(result)) = after
    <3>1. CASE ConsumeLastToken
      BY <3>1, <2>2, <2>7 DEF result
    <3>2. CASE ~ConsumeLastToken
      <4> DEFINE r == EnterToken(read, rest)
      <4>1. result = r
        BY <3>2, <2>2 DEF result
      <4>2. /\ All(r) = Splice(All(read), read.CachedLexPos, read.CachedLexPos, <<rest>>)
            /\ r.CachedLexPos = read.CachedLexPos
        BY <1>11, <1>12, EnterTokenProperties
      <4>3. read \in PPType /\ read.CachedLexPos <= Len(All(read))
        BY <2>3 DEF Good, Cached, Current, Follows
      <4> HIDE DEF r
      <4>4. /\ Coming(r) # << >> /\ Head(Coming(r)) = rest /\ Tail(Coming(r)) = Coming(read)
        BY <4>2, <4>3, <1>12, StreamEnter
      <4> QED BY <4>1, <4>4, <3>2, <2>7
    <3> QED BY <3>1, <3>2
  <2>9. Remembered(result, PrevToks) = Rewrite(Memory(s, back, PrevToks), <<Greater, rest>>)
    <3>1. Len(PrevToks) = 0
      BY <2>1, <1>1 DEF Trials
    <3> QED BY <3>1, NoneRemembered DEF Remembered
  <2>10. StreamSplits
    BY <2>6, <2>8, <2>9, <1>18
  <2> QED BY <2>4, <2>6, <2>10 DEF IInv
<1> QED BY <1>19, <1>20

-----------------------------------------------------------------------------
\* Putting back, where the parser does it outside of trials.
LEMMA PutBackKeeps ==
  ASSUME PutsBackInTrials = FALSE PROVE IInv /\ PutBack => IInv' /\ StreamStays
<1> SUFFICES ASSUME IInv, PutBack PROVE IInv' /\ StreamStays
  OBVIOUS
<1>1. /\ Good(pp, Tok, PrevToks) /\ Tok \in GoodToken /\ Tok.kind = "op" /\ Tok.last # End
      /\ pp.BacktrackPositions = << >>
  BY NotAtEnd DEF IInv, Good, Current, PutBack, MayPutBack, InTrial, isBacktrackEnabled
<1>2. /\ Good(Lex(pp), LexResult(pp), PrevToks) /\ LexResult(pp).first = Tok.last + 1
      /\ Lex(pp).BacktrackPositions = << >>
  BY <1>1, GoodLex
<1>3. Good(EnterToken(Lex(pp), LexResult(pp)), Tok, PrevToks)
  BY <1>1, <1>2, GoodEnter
<1> DEFINE read == Lex(pp)
           n == LexResult(pp)
           r == EnterToken(read, n)
<1>4. /\ Cached(r) /\ All(r) = Splice(All(read), read.CachedLexPos, read.CachedLexPos, <<n>>)
      /\ r.CachedLexPos = read.CachedLexPos
  <2>1. Cached(read) /\ n \in GoodToken
    BY <1>2 DEF Good, Current
  <2> HIDE DEF read, n
  <2> QED BY <2>1, EnterTokenProperties
<1> HIDE DEF r
<1>5. Coming(r) = Coming(pp) /\ Remembered(r, PrevToks) = Remembered(pp, PrevToks)
  BY <1>1, <1>4, StreamReentered
<1>6. pp' = r /\ Tok' = Tok /\ PrevToks' = PrevToks /\ assertsHold' = TRUE
  BY DEF PutBack, Call, r
<1> QED BY <1>3, <1>5, <1>6 DEF IInv, StreamStays, r

\* Two tokens are put back, one after the other.
LEMMA UnconsumeTokenKeeps ==
  ASSUME PutsBackInTrials = FALSE PROVE IInv /\ UnconsumeToken => IInv' /\ StreamStays
<1> SUFFICES ASSUME IInv, UnconsumeToken PROVE IInv' /\ StreamStays
  OBVIOUS
<1> DEFINE q1 == Lex(pp)
           n == LexResult(pp)
           entered == EnterToken(q1, Tok)
           q2 == Lex(entered)
           q3 == EnterToken(q2, n)
           p == q1.CachedLexPos
           s1 == All(q1)
           s2 == All(entered)
           s3 == All(q3)
           xt == <<Tok>>
           xn == <<n>>
<1>1. /\ Good(pp, Tok, PrevToks) /\ Tok \in GoodToken /\ Tok.last # End
      /\ pp.BacktrackPositions = << >> /\ assertsHold = TRUE
  BY NotAtEnd DEF IInv, Good, Current, UnconsumeToken, MayPutBack, InTrial, AtEnd,
                  isBacktrackEnabled
<1>2. Good(q1, n, PrevToks) /\ n.first = Tok.last + 1 /\ q1.BacktrackPositions = << >>
  BY <1>1, GoodLex
<1>3. /\ Coming(pp) # << >> /\ n = Head(Coming(pp)) /\ Coming(q1) = Tail(Coming(pp))
  BY <1>1, StreamLex
<1>4. /\ Cached(q1) /\ q1 \in PPType /\ p \in Nat /\ n \in GoodToken /\ n.last \in Nat
      /\ Follows(s1, n.last, p) /\ p <= Len(s1) /\ Trials(s1, << >>, PrevToks)
      /\ Tok.last \in Nat
  BY <1>1, <1>2, EndProperties DEF Good, Cached, Current, PPType, Follows
<1>5. s1 \in Seq(GoodToken) /\ Len(s1) \in Nat /\ xt \in Seq(GoodToken) /\ xn \in Seq(GoodToken)
  <2>1. s1 \in Seq(GoodToken)
    BY <1>4, AllProperties
  <2>2. Len(s1) \in Nat
    BY <2>1, LenProperties
  <2> HIDE DEF n, q1, s1
  <2> QED BY <2>1, <2>2, <1>1, <1>4
<1>6. /\ Len(xt) = 1 /\ xt[1] = Tok /\ Len(xn) = 1 /\ xn[1] = n /\ Adjacent(xn)
  BY DEF Adjacent
<1> HIDE DEF xt, xn
<1>7. /\ Cached(entered) /\ s2 = Splice(s1, p, p, xt) /\ entered.CachedLexPos = p
      /\ entered.BacktrackPositions = << >> /\ entered.caching /\ Unread(entered)
      /\ entered \in PPType
  BY <1>1, <1>2, <1>4, EnterTokenProperties DEF xt, Cached
<1> HIDE DEF s1
<1>8. p \in 0..Len(s1) /\ p \in p..Len(s1)
  <2> HIDE DEF p
  <2> QED BY <1>4, <1>5
<1>9. s2 \in Seq(GoodToken) /\ IsSplice(s2, s1, p, p, xt)
  BY <1>5, <1>7, <1>8, SpliceProperties
<1>10. Len(s2) = Len(s1) + 1 /\ s2[p + 1] = Tok
  <2>1. Len(s2) = Len(s1) - (p - p) + Len(xt) /\ \A i \in 1..Len(xt), j \in Nat : j = p + i => s2[j] = xt[i]
    BY <1>9 DEF IsSplice
  <2>2. 1 \in 1..Len(xt) /\ p + 1 \in Nat
    BY <1>4, <1>6
  <2> HIDE DEF p, s2
  <2>3. p - p = 0
    BY <1>4
  <2> QED BY <2>1, <2>2, <2>3, <1>5, <1>6
<1>11. p < Len(s2) /\ p + 1 \in 0..Len(s2) /\ p + 1 \in (p + 1)..Len(s2)
  <2> HIDE DEF p, s2
  <2> QED BY <1>4, <1>5, <1>10
<1>12. /\ Cached(q2) /\ LexResult(entered) = Tok /\ q2.BacktrackPositions = << >>
       /\ All(q2) = s2 /\ q2.CachedLexPos = p + 1
  BY <1>7, <1>10, <1>11, LexProperties
<1>13. /\ Cached(q3) /\ s3 = Splice(s2, p + 1, p + 1, xn) /\ q3.CachedLexPos = p + 1
       /\ q3.BacktrackPositions = << >>
  BY <1>4, <1>12, EnterTokenProperties DEF xn
<1> HIDE DEF q1, n, entered, q2, q3, p, s2, s3
<1>14. Follows(s2, n.last, p + 1)
  <2>1. Follows(s2, n.last, p - (p - p) + Len(xt))
    BY <1>4, <1>5, <1>7, <1>8, FollowsBehind
  <2>2. p - (p - p) + Len(xt) = p + 1
    BY <1>4, <1>6
  <2> QED BY <2>1, <2>2
<1>15. Follows(s3, Tok.last, p + 1)
  <2>1. Len(xn) # 0 /\ xn[1].first = Tok.last + 1 /\ Follows(s2, xn[Len(xn)].last, p + 1)
    BY <1>2, <1>6, <1>14
  <2>2. Follows(Splice(s2, p + 1, p + 1, xn), Tok.last, p + 1)
    BY <2>1, <1>4, <1>5, <1>6, <1>9, <1>11, FollowsInserted
  <2> QED BY <2>2, <1>13
<1>16. s3[p + 1] = Tok
  <2>1. IsSplice(s3, s2, p + 1, p + 1, xn)
    BY <1>5, <1>9, <1>11, <1>13, SpliceProperties
  <2>2. p + 1 \in 1..(p + 1)
    BY <1>4
  <2> QED BY <2>1, <2>2, <1>10 DEF IsSplice
<1>17. Good(q3, Tok, PrevToks)
  <2>1. Len(<< >>) = 0 /\ Same(s3[p + 1], Tok)
    BY <1>16 DEF Same
  <2>2. Current(s3, p + 1, << >>, Tok) /\ Trials(s3, << >>, PrevToks)
    BY <2>1, <1>1, <1>4, <1>15 DEF Current, Trials
  <2> QED BY <2>2, <1>13 DEF Good, s3
<1>18. Coming(q2) = Coming(q1)
  <2>1. Tail(Coming(entered)) = Coming(q1)
    <3>1. All(entered) = Splice(All(q1), q1.CachedLexPos, q1.CachedLexPos, <<Tok>>)
          /\ entered.CachedLexPos = q1.CachedLexPos
      BY <1>7 DEF s1, s2, p, xt
    <3>2. q1.CachedLexPos <= Len(All(q1))
      BY <1>4 DEF s1, p
    <3> QED BY <3>1, <3>2, <1>1, <1>4, StreamEnter
  <2>2. Tail(Rest(s2, p)) = Rest(s2, p + 1)
    BY <1>4, <1>9, <1>11, RestStep
  <2>3. Coming(entered) = Rest(s2, p) /\ Coming(q2) = Rest(s2, p + 1)
    BY <1>7, <1>12 DEF Coming, s2
  <2> QED BY <2>1, <2>2, <2>3
<1>19. Coming(q3) # << >> /\ Head(Coming(q3)) = n /\ Tail(Coming(q3)) = Coming(q2)
  <2>1. q2 \in PPType
    BY <1>12 DEF Cached
  <2>2. q2.CachedLexPos <= Len(All(q2))
    <3>1. p + 1 <= Len(s2)
      BY <1>11
    <3> QED BY <3>1, <1>12
  <2>3. All(q3) = Splice(All(q2), q2.CachedLexPos, q2.CachedLexPos, <<n>>)
        /\ q3.CachedLexPos = q2.CachedLexPos
    BY <1>12, <1>13 DEF s3, xn
  <2> QED BY <2>1, <2>2, <2>3, <1>4, StreamEnter
<1>20. Coming(q3) = Coming(pp)
  <2>1. Coming(pp) \in Seq(GoodToken)
    BY <1>1, ComingType DEF Good, Current, Follows
  <2>2. Coming(q3) \in Seq(GoodToken)
    BY <1>13, <1>17, ComingType DEF Good, Current, Follows
  <2> QED BY <2>1, <2>2, <1>3, <1>18, <1>19, SameHeadTail
<1>21. Remembered(q3, PrevToks) = Remembered(pp, PrevToks)
  <2>1. Len(PrevToks) = 0
    BY <1>4 DEF Trials
  <2> QED BY <2>1, NoneRemembered DEF Remembered
<1>22. pp' = q3 /\ Tok' = Tok /\ PrevToks' = PrevToks /\ assertsHold' = TRUE
  BY <1>12 DEF UnconsumeToken, Call, q3, q2, entered, n, q1
<1> QED BY <1>17, <1>20, <1>21, <1>22 DEF IInv, StreamStays

\* Tokens are put back as a stream, into the cache or below it.
LEMMA RevertAnnotationsKeeps ==
  ASSUME PutsBackInTrials = FALSE PROVE IInv /\ RevertAnnotations => IInv' /\ StreamStays
<1> SUFFICES ASSUME IInv, RevertAnnotations PROVE IInv' /\ StreamStays
  OBVIOUS
<1> DEFINE one == Lex(pp)
           t1 == LexResult(pp)
           two == Lex(one)
           t2 == LexResult(one)
<1>1. /\ Good(pp, Tok, PrevToks) /\ Tok \in GoodToken /\ Tok.kind = "op" /\ Tok.last # End
      /\ pp.BacktrackPositions = << >> /\ assertsHold = TRUE
  BY NotAtEnd DEF IInv, Good, Current, RevertAnnotations, MayPutBack, InTrial,
                  isBacktrackEnabled
<1>2. Good(one, t1, PrevToks) /\ t1.first = Tok.last + 1 /\ one.BacktrackPositions = << >>
  BY <1>1, GoodLex
<1>3. CASE Call(TRUE, EnterTokenStream(one, <<t1>>), Tok)
  <2>1. Good(EnterTokenStream(one, <<t1>>), Tok, PrevToks)
    BY <1>1, <1>2, GoodEnter
  <2> DEFINE r == EnterTokenStream(one, <<t1>>)
  <2>2. /\ Cached(r) /\ All(r) = Splice(All(one), one.CachedLexPos, one.CachedLexPos, <<t1>>)
        /\ r.CachedLexPos = one.CachedLexPos
    <3>1. Cached(one) /\ t1 \in GoodToken
      BY <1>2 DEF Good, Current
    <3>2. one.BacktrackPositions = << >>
      BY <1>2
    <3> HIDE DEF one, t1
    <3>3. <<t1>> \in Seq(GoodToken)
      BY <3>1
    <3> QED BY <3>1, <3>2, <3>3, EnterTokenStreamProperties
  <2> HIDE DEF r
  <2>3. Coming(r) = Coming(pp) /\ Remembered(r, PrevToks) = Remembered(pp, PrevToks)
    BY <2>2, <1>1, StreamReentered
  <2>4. pp' = r /\ Tok' = Tok /\ PrevToks' = PrevToks /\ assertsHold' = TRUE
    BY <1>3 DEF RevertAnnotations, Call, r
  <2> QED BY <2>1, <2>3, <2>4 DEF IInv, StreamStays, r
<1>4. CASE t1.kind # "eof" /\ Call(TRUE, EnterTokenStream(two, <<t1, t2>>), Tok)
  <2> DEFINE x == <<t1, t2>>
             p == two.CachedLexPos
             s == All(two)
             r == EnterTokenStream(two, x)
             s2 == Splice(s, p, p, x)
  <2>1. t1 \in GoodToken /\ t1.last # End
    BY <1>2, <1>4, NotAtEnd DEF Good, Current
  <2>2. Good(two, t2, PrevToks) /\ t2.first = t1.last + 1 /\ two.BacktrackPositions = << >>
    BY <2>1, <1>2, GoodLex
  <2>3. /\ Cached(two) /\ two \in PPType /\ p \in Nat /\ t2 \in GoodToken
        /\ Follows(s, t2.last, p) /\ p <= Len(s) /\ Trials(s, << >>, PrevToks)
        /\ Tok.last \in Nat
    BY <1>1, <2>2, EndProperties DEF Good, Cached, Current, PPType, Follows
  <2>4. s \in Seq(GoodToken) /\ Len(s) \in Nat /\ x \in Seq(GoodToken)
    <3>1. s \in Seq(GoodToken)
      BY <2>3, AllProperties
    <3>2. Len(s) \in Nat
      BY <3>1, LenProperties
    <3> HIDE DEF s, t1, t2
    <3> QED BY <3>1, <3>2, <2>1, <2>3
  <2>5. Len(x) = 2 /\ x[1] = t1 /\ x[2] = t2
    OBVIOUS
  <2>6. Adjacent(x)
    BY <2>2, <2>5 DEF Adjacent
  <2>7. /\ Cached(r) /\ All(r) = s2 /\ r.CachedLexPos = p /\ r.BacktrackPositions = << >>
    BY <2>2, <2>3, <2>4, EnterTokenStreamProperties
  <2>8. Coming(r) = Coming(pp) /\ Remembered(r, PrevToks) = Remembered(pp, PrevToks)
    <3>1. All(r) = Splice(All(two), two.CachedLexPos, two.CachedLexPos, <<t1, t2>>)
          /\ r.CachedLexPos = two.CachedLexPos
      BY <2>7
    <3> HIDE DEF r
    <3> QED BY <3>1, <2>1, <1>1, StreamReenteredTwo
  <2> HIDE DEF one, t1, two, t2, x, p, s, r, s2
  <2>9. p \in 0..Len(s) /\ p \in p..Len(s)
    BY <2>3, <2>4
  <2>10. Follows(s2, Tok.last, p)
    <3>1. Len(x) # 0 /\ x[1].first = Tok.last + 1 /\ Follows(s, x[Len(x)].last, p)
      BY <1>2, <2>3, <2>5
    <3> QED BY <3>1, <2>3, <2>4, <2>6, <2>9, FollowsInserted DEF s2
  <2>11. Good(r, Tok, PrevToks)
    <3>1. Len(<< >>) = 0
      OBVIOUS
    <3>2. Current(s2, p, << >>, Tok) /\ Trials(s2, << >>, PrevToks)
      BY <3>1, <1>1, <2>3, <2>10 DEF Current, Trials
    <3> QED BY <3>2, <2>7 DEF Good
  <2>12. pp' = r /\ Tok' = Tok /\ PrevToks' = PrevToks /\ assertsHold' = TRUE
    BY <1>4 DEF RevertAnnotations, Call, r, x, two, one, t1, t2
  <2> QED BY <2>11, <2>8, <2>12 DEF IInv, StreamStays
<1> QED BY <1>3, <1>4 DEF RevertAnnotations

-----------------------------------------------------------------------------
\* Everything the parser does.
LEMMA EveryStepKeeps ==
  ASSUME PutsBackInTrials = FALSE PROVE IInv /\ [Next]_vars => IInv' /\ StreamMoves
<1> SUFFICES ASSUME IInv, [Next]_vars PROVE IInv' /\ StreamMoves
  OBVIOUS
<1>1. CASE Consume
  BY <1>1, ConsumeKeeps DEF StreamMoves
<1>2. CASE \E n \in 0..MaxAhead : Look(n)
  BY <1>2, LookKeeps DEF StreamMoves
<1>3. CASE Begin
  BY <1>3, BeginKeeps DEF StreamMoves
<1>4. CASE Commit
  BY <1>4, CommitKeeps DEF StreamMoves
<1>5. CASE Revert
  BY <1>5, RevertKeeps DEF StreamMoves
<1>6. CASE Annotate
  BY <1>6, AnnotateKeeps DEF StreamMoves
<1>7. CASE AnnotateBefore
  BY <1>7, AnnotateBeforeKeeps DEF StreamMoves
<1>8. CASE ReadScopeAgain
  BY <1>8, ReadScopeAgainKeeps DEF StreamMoves
<1>9. CASE CorrectTypo
  BY <1>9, CorrectTypoKeeps DEF StreamMoves
<1>10. CASE \E last \in BOOLEAN : SplitGreater(last)
  BY <1>10, SplitGreaterKeeps DEF StreamMoves
<1>11. CASE PutBack
  BY <1>11, PutBackKeeps DEF StreamMoves
<1>12. CASE UnconsumeToken
  BY <1>12, UnconsumeTokenKeeps DEF StreamMoves
<1>13. CASE RevertAnnotations
  BY <1>13, RevertAnnotationsKeeps DEF StreamMoves
<1>14. CASE UNCHANGED vars
  <2>1. UNCHANGED <<pp, Tok, PrevToks, assertsHold>>
    BY <1>14 DEF vars
  <2> QED BY Zenon, <2>1 DEF IInv, StreamStays, StreamMoves
<1> QED BY <1>1, <1>2, <1>3, <1>4, <1>5, <1>6, <1>7, <1>8, <1>9, <1>10, <1>11, <1>12,
           <1>13, <1>14 DEF Next

\* IInv is an invariant.
LEMMA Consistent == ASSUME PutsBackInTrials = FALSE PROVE Spec => []IInv
<1>1. Init => IInv
  BY InitGood
<1>2. IInv /\ [Next]_vars => IInv'
  BY EveryStepKeeps
<1> QED BY <1>1, <1>2, PTL DEF Spec

\* TypeOK: the cache holds tokens, and there is a token of PrevTok for every
\* position the layer can come back to.
THEOREM TypeCorrect == ASSUME PutsBackInTrials = FALSE PROVE Spec => []TypeOK
<1>1. IInv => TypeOK
  <2> SUFFICES ASSUME IInv PROVE TypeOK
    OBVIOUS
  <2>1. /\ pp \in PPType /\ Tok \in GoodToken /\ PrevToks \in Seq(GoodToken)
        /\ Len(PrevToks) = Len(pp.BacktrackPositions) /\ assertsHold = TRUE
    BY DEF IInv, Good, Cached, Current, Trials
  <2>2. \A q \in Seq(GoodToken) : q \in Seq(Token)
    BY DEF GoodToken
  <2>3. Tok \in Token
    BY <2>1 DEF GoodToken
  <2> HIDE DEF Token
  <2>4. pp \in [CachedTokens : Seq(Token), CachedLexPos : Nat, BacktrackPositions : Seq(Nat),
                caching : BOOLEAN, lexers : Seq(Token)]
    BY <2>1, <2>2 DEF PPType
  <2> QED BY <2>1, <2>2, <2>3, <2>4 DEF TypeOK
<1> QED BY <1>1, Consistent, PTL

\* NoAssertFails: the assertions of PPCaching.cpp and Preprocessor.h hold
\* whatever the parser does within its rules.
THEOREM AssertionsHold == ASSUME PutsBackInTrials = FALSE PROVE Spec => []NoAssertFails
<1>1. IInv => NoAssertFails
  BY DEF IInv, NoAssertFails
<1> QED BY <1>1, Consistent, PTL

\* NothingIsSkipped: the parser loses no token and reads none twice.
THEOREM NothingSkipped == ASSUME PutsBackInTrials = FALSE PROVE Spec => []NothingIsSkipped
<1>1. IInv => NothingIsSkipped
  <2> SUFFICES ASSUME IInv PROVE NothingIsSkipped
    OBVIOUS
  <2>1. /\ pp \in PPType /\ Tok \in GoodToken /\ pp.CachedLexPos \in Nat
        /\ pp.CachedLexPos <= Len(pp.CachedTokens)
        /\ Follows(All(pp), Tok.last, pp.CachedLexPos)
    BY DEF IInv, Good, Cached, Current, PPType
  <2>2. Whole(Tok, From(pp.CachedLexPos))
    BY <2>1, FollowsIsWhole DEF From
  <2>3. Ahead = From(pp.CachedLexPos)
    <3>1. Ahead = Coming(pp)
      BY ComingIsRead DEF IInv, Good, Ahead, From
    <3>2. From(pp.CachedLexPos) = Coming(pp)
      BY <2>1, ReadIsRest DEF From, Coming
    <3> QED BY <3>1, <3>2
  <2> QED BY <2>2, <2>3 DEF NothingIsSkipped
<1> QED BY <1>1, Consistent, PTL

\* RelexesTheSame: for every open trial, going back re-lexes the rest of the
\* file, whatever was annotated, corrected, split or looked at since.
THEOREM Relexed == ASSUME PutsBackInTrials = FALSE PROVE Spec => []RelexesTheSame
<1>1. IInv => RelexesTheSame
  <2> SUFFICES ASSUME IInv, NEW k \in 1..Len(PrevToks)
               PROVE  Whole(PrevToks[k], From(pp.BacktrackPositions[k]))
    BY DEF RelexesTheSame, From
  <2> DEFINE back == pp.BacktrackPositions
             p == back[k]
             c == Len(pp.CachedTokens)
  <2>1. /\ Cached(pp) /\ pp \in PPType /\ back \in Seq(Nat) /\ pp.CachedLexPos \in Nat
        /\ PrevToks \in Seq(GoodToken) /\ Len(PrevToks) = Len(back)
    BY DEF IInv, Good, Cached, Trials, PPType
  <2>2. p \in Nat /\ PrevToks[k] \in GoodToken /\ c \in Nat
    BY <2>1, ElementOfSeq, LenProperties DEF PPType
  <2>3. p <= pp.CachedLexPos /\ pp.CachedLexPos <= c
    BY <2>1 DEF Cached
  <2>4. Follows(All(pp), PrevToks[k].last, p)
    BY <2>1 DEF IInv, Good, Trials
  <2> HIDE DEF p, c
  <2>5. p <= c
    BY <2>1, <2>2, <2>3
  <2>6. Whole(PrevToks[k], From(p))
    BY <2>1, <2>2, <2>4, <2>5, FollowsIsWhole DEF From, c
  <2> QED BY <2>6 DEF p
<1> QED BY <1>1, Consistent, PTL

-----------------------------------------------------------------------------
\* The trials of a TokenStream, read from the cache.
TrialsRead ==
    [k \in 1..Len(PrevToks) |->
        [tok |-> PrevToks[k], ahead |-> From(pp.BacktrackPositions[k])]]

\* What the properties read from the cache is what the lemmas say of it.
LEMMA ReadBefore ==
  ASSUME IInv PROVE Ahead = Coming(pp) /\ TrialsRead = Remembered(pp, PrevToks)
<1>1. Cached(pp) /\ Len(PrevToks) = Len(pp.BacktrackPositions)
  BY DEF IInv, Good, Trials
<1>2. Ahead = Coming(pp)
  BY Zenon, <1>1, ComingIsRead DEF Ahead, From
<1>3. TrialsRead = Remembered(pp, PrevToks)
  BY Zenon, <1>1, RememberedIsRead DEF TrialsRead, From
<1> QED BY <1>2, <1>3

\* The same, after a step.
LEMMA ReadAfter ==
  ASSUME IInv' PROVE Ahead' = Coming(pp') /\ TrialsRead' = Remembered(pp', PrevToks')
<1>1. Cached(pp') /\ Len(PrevToks') = Len((pp').BacktrackPositions)
  BY DEF IInv, Good, Trials
<1>2. Ahead' = Coming(pp')
  BY Zenon, <1>1, ComingIsRead DEF Ahead, From
<1>3. TrialsRead' = Remembered(pp', PrevToks')
  BY Zenon, <1>1, RememberedIsRead DEF TrialsRead, From
<1> QED BY <1>2, <1>3

\* Every step of the parser is a step of the stream, or none.
LEMMA StepsOfTheStream ==
  ASSUME IInv, IInv'
  PROVE  /\ StreamStays => UNCHANGED Contract!vars
         /\ StreamAdvances => Contract!Advance
         /\ StreamStarts => Contract!Start
         /\ StreamKeeps => Contract!Keep
         /\ StreamReturns => Contract!Return
         /\ StreamAnnotates => Contract!Annotate
         /\ StreamAnnotatesBefore => Contract!AnnotateBefore
         /\ StreamSplits => Contract!Split
<1>1. Ahead = Coming(pp) /\ TrialsRead = Remembered(pp, PrevToks)
  BY ReadBefore
<1>2. Ahead' = Coming(pp') /\ TrialsRead' = Remembered(pp', PrevToks')
  BY ReadAfter
<1>3. ASSUME NEW x, Rewrites(x) PROVE TrialsRead' = Contract!Rewritten(x)
  <2>1. Contract!Rewritten(x)
          = [k \in DOMAIN TrialsRead |->
               [TrialsRead[k] EXCEPT !.ahead = Contract!Replaced(@, x)]]
    BY Zenon DEF Contract!Rewritten, TrialsRead
  <2>2. Contract!Rewritten(x) = Rewrite(TrialsRead, x)
    BY Zenon, <2>1 DEF Rewrite
  <2> QED BY Zenon, <2>2, <1>1, <1>2, <1>3 DEF Rewrites
<1>4. StreamStays => UNCHANGED Contract!vars
  <2>1. UNCHANGED Contract!vars <=> Tok' = Tok /\ Ahead' = Ahead /\ TrialsRead' = TrialsRead
    BY DEF Contract!vars, TrialsRead
  <2> QED BY Zenon, <2>1, <1>1, <1>2 DEF StreamStays
<1>5. StreamAdvances => Contract!Advance
  <2>1. (/\ Ahead # << >> /\ Tok' = Head(Ahead) /\ Ahead' = Tail(Ahead)
         /\ TrialsRead' = TrialsRead) => Contract!Advance
    BY Zenon DEF Contract!Advance, TrialsRead
  <2> QED BY Zenon, <2>1, <1>1, <1>2 DEF StreamAdvances
<1>6. StreamStarts => Contract!Start
  <2>1. (/\ TrialsRead' = Append(TrialsRead, [tok |-> Tok, ahead |-> Ahead])
         /\ Tok' = Tok /\ Ahead' = Ahead) => Contract!Start
    BY DEF Contract!Start, TrialsRead
  <2> QED BY Zenon, <2>1, <1>1, <1>2 DEF StreamStarts
<1>7. StreamKeeps => Contract!Keep
  <2>1. (/\ TrialsRead # << >> /\ TrialsRead' = SubSeq(TrialsRead, 1, Len(TrialsRead) - 1)
         /\ Tok' = Tok /\ Ahead' = Ahead) => Contract!Keep
    BY DEF Contract!Keep, TrialsRead
  <2> QED BY Zenon, <2>1, <1>1, <1>2 DEF StreamKeeps, Popped
<1>8. StreamReturns => Contract!Return
  <2>1. (/\ TrialsRead # << >> /\ Tok' = TrialsRead[Len(TrialsRead)].tok
         /\ Ahead' = TrialsRead[Len(TrialsRead)].ahead
         /\ TrialsRead' = SubSeq(TrialsRead, 1, Len(TrialsRead) - 1)) => Contract!Return
    BY Zenon DEF Contract!Return, TrialsRead
  <2> QED BY Zenon, <2>1, <1>1, <1>2 DEF StreamReturns, Popped
<1>9. StreamAnnotates => Contract!Annotate
  <2>1. (/\ Tok'.first <= Tok.first /\ Tok'.last = Tok.last /\ Ahead' = Ahead
         /\ TrialsRead' = Contract!Rewritten(<<Tok'>>)) => Contract!Annotate
    BY Zenon DEF Contract!Annotate, TrialsRead
  <2> QED BY Zenon, <2>1, <1>1, <1>2, <1>3 DEF StreamAnnotates
<1>10. StreamAnnotatesBefore => Contract!AnnotateBefore
  <2>1. (/\ Tok'.first < Tok.first /\ Tok'.last = Tok.first - 1
         /\ Ahead' # << >> /\ Tail(Ahead') = Ahead
         /\ Head(Ahead').first = Tok.first /\ Head(Ahead').last = Tok.last
         /\ TrialsRead' = Contract!Rewritten(<<Tok'>>)) => Contract!AnnotateBefore
    BY Zenon DEF Contract!AnnotateBefore, TrialsRead
  <2> QED BY Zenon, <2>1, <1>1, <1>2, <1>3 DEF StreamAnnotatesBefore
<1>11. StreamSplits => Contract!Split
  <2>1. CASE /\ Coming(pp') # << >>
             /\ Splits(Tok', Head(Coming(pp')), Tail(Coming(pp')))
    <3>1. Ahead' # << >> /\ Splits(Tok', Head(Ahead'), Tail(Ahead'))
      BY Zenon, <2>1, <1>2
    <3>2. (/\ Tok'.first = Tok.first /\ Head(Ahead').first = Tok'.last + 1
           /\ \/ Head(Ahead').last = Tok.last /\ Tail(Ahead') = Ahead
              \/ /\ Ahead # << >> /\ Head(Ahead').last = Head(Ahead).last
                 /\ Tail(Ahead') = Tail(Ahead)
           /\ TrialsRead' = Contract!Rewritten(<<Tok', Head(Ahead')>>))
          => Contract!SplitInto(Tok', Head(Ahead'), Tail(Ahead'))
      BY Zenon DEF Contract!SplitInto, TrialsRead
    <3>3. Contract!SplitInto(Tok', Head(Ahead'), Tail(Ahead'))
      BY Zenon, <3>1, <3>2, <1>1, <1>3 DEF Splits
    <3> QED BY Zenon, <3>1, <3>3 DEF Contract!Split
  <2>2. CASE /\ Tok'.first > Tok.first
             /\ Splits([first |-> Tok.first, last |-> Tok'.first - 1, kind |-> "greater"],
                       Tok', Coming(pp'))
    <3> DEFINE g == [first |-> Tok.first, last |-> Tok'.first - 1, kind |-> "greater"]
    <3>1. Tok'.first > Tok.first /\ Splits(g, Tok', Ahead')
      BY Zenon, <2>2, <1>2
    <3>2. (/\ g.first = Tok.first /\ Tok'.first = g.last + 1
           /\ \/ Tok'.last = Tok.last /\ Ahead' = Ahead
              \/ /\ Ahead # << >> /\ Tok'.last = Head(Ahead).last
                 /\ Ahead' = Tail(Ahead)
           /\ TrialsRead' = Contract!Rewritten(<<g, Tok'>>))
          => Contract!SplitInto(g, Tok', Ahead')
      BY Zenon DEF Contract!SplitInto, TrialsRead
    <3>3. Contract!SplitInto(g, Tok', Ahead')
      BY Zenon, <3>1, <3>2, <1>1, <1>3 DEF Splits
    <3>4. "greater" \in Kind
      BY DEF Kind
    <3> QED BY Zenon, <3>1, <3>3, <3>4 DEF Contract!Split
  <2> QED BY Zenon, <2>1, <2>2 DEF StreamSplits
<1> QED BY Zenon, <1>4, <1>5, <1>6, <1>7, <1>8, <1>9, <1>10, <1>11

\* At first no trial is open, and the rest of the file is ahead.
LEMMA StartOfTheStream == Init => Contract!Init
<1> SUFFICES ASSUME Init PROVE Contract!Init
  OBVIOUS
<1>1. IInv /\ PrevToks = << >>
  BY InitGood DEF Init
<1>2. \A t \in GoodToken : t \in Contract!Token
  BY EndProperties DEF GoodToken, Token, Contract!Token
<1>3. Tok \in Contract!Token
  BY <1>1, <1>2 DEF IInv, Good, Current
<1>4. Ahead \in Seq(GoodToken)
  <2>1. Cached(pp) /\ pp.CachedLexPos <= Len(All(pp))
    BY <1>1 DEF IInv, Good, Current, Follows
  <2> QED BY <2>1, <1>1, ComingType, ReadBefore
<1>5. Ahead \in Seq(Contract!Token)
  <2> DEFINE T == Contract!Token
  <2>1. \A t \in GoodToken : t \in T
    BY <1>2
  <2> HIDE DEF T
  <2>2. \A s \in Seq(GoodToken) : s \in Seq(T)
    BY <2>1
  <2> QED BY <2>2, <1>4 DEF T
<1>6. TrialsRead = << >>
  <2>1. Len(PrevToks) = 0
    BY <1>1
  <2> QED BY <2>1 DEF TrialsRead
<1> QED BY Zenon, <1>3, <1>5, <1>6 DEF Contract!Init, TrialsRead

\* KeepsStream: the cache is a TokenStream, for every file and however deep the
\* trials are.
THEOREM StreamKept == ASSUME PutsBackInTrials = FALSE PROVE Spec => KeepsStream
<1>1. Init => Contract!Init
  BY StartOfTheStream
<1>2. IInv /\ IInv' /\ [Next]_vars => [Contract!Next]_Contract!vars
  <2> SUFFICES ASSUME IInv, IInv', [Next]_vars PROVE [Contract!Next]_Contract!vars
    OBVIOUS
  <2>1. StreamMoves
    BY EveryStepKeeps
  <2>2. CASE StreamStays
    <3>1. UNCHANGED Contract!vars
      BY Zenon, <2>2, StepsOfTheStream
    <3> QED BY Zenon, <3>1
  <2>3. CASE ~StreamStays
    <3>1. Contract!Next
      BY Zenon, <2>1, <2>3, StepsOfTheStream DEF StreamMoves, Contract!Next
    <3> QED BY Zenon, <3>1
  <2> QED BY Zenon, <2>2, <2>3
<1> QED BY <1>1, <1>2, Consistent, PTL DEF Spec, KeepsStream, Contract!Spec

=============================================================================
