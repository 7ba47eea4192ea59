----------------------------- MODULE TokenStream -----------------------------
(***************************************************************************)
(* What the parser may rely on when it parses tentatively: it has a        *)
(* current token and a stream ahead of it; a trial remembers both, and     *)
(* going back restores both.  In between tokens may be replaced by others  *)
(* that stand for the same text (an annotation for the tokens it           *)
(* summarises, '>' '>' for '>>'), and then they are replaced in what every *)
(* open trial remembers too.  Looking ahead, and putting back what was     *)
(* just consumed, change nothing.                                          *)
(***************************************************************************)
EXTENDS Integers, Sequences, FiniteSetsExt

CONSTANT Kind
VARIABLES tok, ahead, trials
vars == <<tok, ahead, trials>>

\* The tokens of s that lie within the text of ts, replaced by ts.
Replaced(s, ts) ==
    LET inside == {i \in DOMAIN s : /\ s[i].first >= ts[1].first
                                    /\ s[i].last <= ts[Len(ts)].last}
    IN IF inside = {} THEN s
       ELSE SubSeq(s, 1, Min(inside) - 1) \o ts \o SubSeq(s, Max(inside) + 1, Len(s))

Rewritten(ts) ==
    [k \in DOMAIN trials |-> [trials[k] EXCEPT !.ahead = Replaced(@, ts)]]

Token == [first : Nat, last : Nat, kind : Kind]

Init == tok \in Token /\ ahead \in Seq(Token) /\ trials = << >>

Advance ==
    /\ ahead # << >>
    /\ tok' = Head(ahead)
    /\ ahead' = Tail(ahead)
    /\ UNCHANGED trials

Start ==
    /\ trials' = Append(trials, [tok |-> tok, ahead |-> ahead])
    /\ UNCHANGED <<tok, ahead>>

Keep ==
    /\ trials # << >>
    /\ trials' = SubSeq(trials, 1, Len(trials) - 1)
    /\ UNCHANGED <<tok, ahead>>

Return ==
    /\ trials # << >>
    /\ tok' = trials[Len(trials)].tok
    /\ ahead' = trials[Len(trials)].ahead
    /\ trials' = SubSeq(trials, 1, Len(trials) - 1)

\* The current token becomes one that also stands for some tokens before it.
Annotate ==
    /\ tok'.first <= tok.first /\ tok'.last = tok.last
    /\ ahead' = ahead
    /\ trials' = Rewritten(<<tok'>>)

\* The tokens before the current one become one token, and the current one
\* (or what an inner trial made of it) is ahead again.
AnnotateBefore ==
    /\ tok'.first < tok.first /\ tok'.last = tok.first - 1
    /\ ahead' # << >> /\ Tail(ahead') = ahead
    /\ Head(ahead').first = tok.first /\ Head(ahead').last = tok.last
    /\ trials' = Rewritten(<<tok'>>)

\* The current token, or it and the next one, become two tokens, of which the
\* first or the second is now the current one.
SplitInto(left, right, rest) ==
    /\ left.first = tok.first /\ right.first = left.last + 1
    /\ \/ right.last = tok.last /\ rest = ahead
       \/ ahead # << >> /\ right.last = Head(ahead).last /\ rest = Tail(ahead)
    /\ trials' = Rewritten(<<left, right>>)

Split ==
    \/ /\ ahead' # << >>
       /\ SplitInto(tok', Head(ahead'), Tail(ahead'))
    \/ /\ tok'.first > tok.first
       /\ \E kind \in Kind :
             SplitInto([first |-> tok.first, last |-> tok'.first - 1, kind |-> kind],
                       tok', ahead')

Next == Advance \/ Start \/ Keep \/ Return \/ Annotate \/ AnnotateBefore \/ Split

Spec == Init /\ [][Next]_vars

=============================================================================
